---- MODULE Spec2Model ----
(***************************************************************************)
(* Model of the Exasol websocket client: the control-channel send layer    *)
(* (websocket.go), the prepared-statement cache and execute engine         *)
(* (prep-stmt.go, client.go) and the result-set producer (client.go).      *)
(***************************************************************************)
EXTENDS Integers, Sequences, FiniteSets, TLC

(***************************************************************************)
(* Bounds                                                                  *)
(***************************************************************************)
\* High-water mark of the prepared-statement cache.  The source compares
\* len(psc) with the literal 1000; the model is parametric in that literal
\* and is checked with a small value.
CacheLimit == 2
\* Distinct SQL texts a caller may submit (one more than fits in the cache).
NumSQL == CacheLimit + 1
\* Public calls made on one session.
MaxCalls == 3
\* Largest affected-row count the server reports.
MaxRowCount == 2

\* Largest result set (rows) and its width (columns).
MaxRows == 3
NumCols == 2
\* Capacity of the row channel.  The source makes it 1000; the model is
\* parametric in it and is checked with a small value.
ChanCap == 2
\* fetch requests one producer may write (a server that keeps answering
\* with zero rows would otherwise be asked forever).
MaxFetches == MaxRows + 1
\* Commands the caller issues while the producer of FetchChan is running.
MaxUserCmds == 2

SQLs == 1..NumSQL
RowCounts == 1..MaxRowCount
\* Statement handles the server can issue within MaxCalls calls
\* (each call creates at most two).
Handles == 1..(2 * MaxCalls)

(***************************************************************************)
(* Control channel: websocket.go                                           *)
(***************************************************************************)
nil == [kind |-> "nil", text |-> ""]

Commands ==
    { "login", "disconnect", "getAttributes", "setAttributes", "execute",
      "createPreparedStatement", "executePreparedStatement",
      "closePreparedStatement", "fetch", "closeResultSet" }

\* What the transport and the server do with one request: the error of
\* WriteJSON, the error of ReadJSON, and the decoded Status / Exception.Text.
WireEnv ==
    [ writeErr : {"nil", "broken pipe"},
      readErr  : {"nil", "close 1006 (abnormal closure)", "i/o timeout"},
      Status   : {"ok", "error", ""},
      Text     : {"", "Statement handle not found", "syntax error"} ]

\* regexp `abnormal closure` applied to the text of the read error
MatchAbnormalClosure(text) == text \in {"close 1006 (abnormal closure)"}

\* regexp "Statement handle not found" applied to the text of an error
MatchStmtHandleNotFound(text) == text \in {"Statement handle not found"}

\* The receiver closure returned by asyncSend.
receiver_StatusFirst(w) ==
    IF w.Status # "ok"
    THEN [kind |-> "Server Error", text |-> w.Text]
    ELSE IF w.readErr # "nil"
    THEN IF MatchAbnormalClosure(w.readErr)
         THEN [kind |-> "Server terminated statement", text |-> ""]
         ELSE [kind |-> "WebSocket API Error recving", text |-> w.readErr]
    ELSE nil

receiver(w) ==
    IF w.readErr # "nil"
    THEN IF MatchAbnormalClosure(w.readErr)
         THEN [kind |-> "Server terminated statement", text |-> ""]
         ELSE [kind |-> "WebSocket API Error recving", text |-> w.readErr]
    ELSE IF w.Status # "ok"
    THEN [kind |-> "Server Error", text |-> w.Text]
    ELSE nil

\* asyncSend: write the request; hand back a receiver only if the write
\* succeeded.
asyncSend(w) ==
    IF w.writeErr # "nil"
    THEN [hasReceiver |-> FALSE,
          err |-> [kind |-> "WebSocket API Error sending", text |-> w.writeErr]]
    ELSE [hasReceiver |-> TRUE, err |-> nil]

\* send: asyncSend followed at once by its receiver.  `read` tells whether
\* ReadJSON was called, `decoded` whether it filled the response struct.
send(w) ==
    LET a == asyncSend(w) IN
    IF a.err # nil
    THEN [err |-> a.err, written |-> FALSE, read |-> FALSE, decoded |-> FALSE]
    ELSE [err |-> receiver(w), written |-> TRUE, read |-> TRUE,
          decoded |-> (w.readErr = "nil")]

\* The environments a well-behaved transport produces: nothing is read after
\* a failed write, nothing is decoded after a failed read, and an exception
\* text accompanies exactly the non-ok status.
Consistent(w) ==
    /\ w.writeErr # "nil" => (w.readErr = "nil" /\ w.Status = "")
    /\ w.readErr # "nil" => w.Status = ""
    /\ (w.writeErr = "nil" /\ w.readErr = "nil") => w.Status \in {"ok", "error"}
    /\ w.Status = "error" <=> w.Text # ""

Wire == { w \in WireEnv : Consistent(w) }

OkWire == [writeErr |-> "nil", readErr |-> "nil", Status |-> "ok", Text |-> ""]

(***************************************************************************)
(* State                                                                   *)
(***************************************************************************)
VARIABLES
    lastSend,        \* the most recent send on the raw channel: request, environment, result
    CachePrepStmts,  \* Conn.Conf.CachePrepStmts
    prepStmtCache,   \* Conn.prepStmtCache: sql -> [sth, lastUsed]
    Stats,           \* Conn.Stats
    wsOpen,          \* Conn.ws # nil
    now,             \* the clock read by time.Now()
    srvNextSth,      \* server: next statement handle to issue
    srvOpen,         \* server: statement handles currently open
    closeCount,      \* per handle, closePreparedStatement requests handed to send
    sent,            \* requests handed to send by the most recent call, in order
    lastCall,        \* what the most recent public call did and returned
    calls,           \* number of public calls made
    rs,              \* the resultSet handed to resultsToChan by FetchChan
    ppc,             \* resultsToChan: position of the producer goroutine
    fi,              \* resultsToChan: the loop variable i (rows consumed)
    pending,         \* transposeToChan: rows not yet put on the channel
    ch,              \* the row channel: buffered rows
    chClosed,        \* the row channel was closed
    got,             \* rows the consumer has received from the channel
    wire,            \* control channel: responses written by the server, not yet read
    fetchLog,        \* startPosition of every fetch request written
    closeRSCount,    \* closeResultSet requests written
    upc,             \* the caller: idle, or waiting for the response to its command
    ucmds,           \* commands the caller has issued besides FetchChan
    misread,         \* some task read a response to another task's request
    QueryTimeout,    \* Conn.Conf.QueryTimeout (0: no timeout)
    SuppressError,   \* Conn.Conf.SuppressError
    crashed,         \* a goroutine of a bulk call panicked
    proxy,           \* per attempt: the Proxy (opened, running, times conn.Close was called)
    sock,            \* per attempt: the proxy socket (unread bytes, remote end gone, closed)
    dataErr,         \* per attempt: the channel dataErr
    respErr,         \* per attempt: the channel respErr
    rcv,             \* per attempt: position of the goroutine calling receiver
    att,             \* per attempt that has returned: what it did and returned
    dataIn,          \* StreamExecute: the caller's input channel (closed, slices buffered)
    sePc,            \* StreamExecute: position of the call
    seIter,          \* StreamExecute: attempts started
    seResult,        \* StreamExecute: the error returned
    bytesWritten,    \* per attempt: the result variable bytesWritten of streamExecuteNoRetry
    wr,              \* per attempt: the goroutine running proxy.Write
    export,          \* StreamQuery: the chunks of the export the server streams
    sqIter,          \* StreamQuery: attempts started
    gPc,             \* StreamQuery: position of the background goroutine
    errVar,          \* per attempt: the variable err of Rows.streamQuery
    rError,          \* Rows.Error
    BytesRead,       \* Rows.BytesRead
    rProxy,          \* Rows.proxy (0: nil, else the attempt that opened it)
    Data,            \* Rows.Data: buffered chunks
    dataClosed,      \* times Rows.Data was closed
    stop,            \* Rows.stop: buffered stop signals
    closePc,         \* Rows.Close: position of the caller inside Close
    origCfg,         \* Rows.Close: the local origCfg
    closes,          \* Rows.Close: the calls made, and what they found
    rd,              \* per attempt: the goroutine running proxy.Read
    pub,             \* per attempt: chunks proxy.Read published on Data
    gotData,         \* chunks the consumer received from Data
    replies,         \* per attempt: status lines the proxy sent, and after what
    transport,       \* the websocket dialled by wsConnect: "none", "open" or "closed"
    session,         \* what Connect returned: the session's SessionID and Metadata, or the error
    srvAuth,         \* server: the response data of its authentication response
    srvAttr,         \* server: the attributes of the session
    cliAttr,         \* the Attributes the most recent call returned (GetSessionAttr)
    lastAttr,        \* the most recent request with an attributes block, and its result
    dial,            \* wsConnect: the host, the addresses left to try, the attempts made
    dataOpen,        \* StreamExecute: the caller has not closed the input channel yet
    lines            \* readLine: the connection it reads, and the calls made on it

vars == << lastSend, CachePrepStmts, prepStmtCache, Stats, wsOpen, now,
           srvNextSth, srvOpen, closeCount, sent, lastCall, calls,
           rs, ppc, fi, pending, ch, chClosed, got, wire, fetchLog,
           closeRSCount, upc, ucmds, misread,
           QueryTimeout, SuppressError, crashed, proxy, sock, dataErr, respErr,
           rcv, att, dataIn, dataOpen, sePc, seIter, seResult, bytesWritten, wr,
           export, sqIter, gPc, errVar, rError, BytesRead, rProxy, Data,
           dataClosed, stop, closePc, origCfg, closes, rd, pub, gotData, replies,
           transport, session, srvAuth, srvAttr, cliAttr, lastAttr, dial, lines >>

\* State used by one call only: of wsConnect, of readLine.
extraVars == << dial, lines >>

\* State of the session's login and of its attributes.
sessVars == << transport, session, srvAuth, srvAttr, cliAttr, lastAttr, extraVars >>

\* State of the bulk calls: shared by both paths, of StreamExecute, of
\* StreamQuery.
attVars == << QueryTimeout, SuppressError, crashed, proxy, sock, dataErr, respErr, rcv, att >>

writeVars == << dataIn, dataOpen, sePc, seIter, seResult, bytesWritten, wr >>

readVars == << export, sqIter, gPc, errVar, rError, BytesRead, rProxy, Data,
               dataClosed, stop, closePc, origCfg, closes, rd, pub, gotData, replies >>

bulkVars == << attVars, writeVars, readVars >>

\* The result-set producer without the control channel it shares.
rowVars == << rs, ppc, fi, pending, ch, chClosed, got, fetchLog, closeRSCount, upc, ucmds >>

fetchVars == << rs, ppc, fi, pending, ch, chClosed, got, wire, fetchLog,
                closeRSCount, upc, ucmds, misread >>

stmtVars == << CachePrepStmts, prepStmtCache, Stats, wsOpen, now,
               srvNextSth, srvOpen, closeCount, sent, lastCall, calls >>

NoSend == [cmd |-> "none", w |-> OkWire,
           res |-> [err |-> nil, written |-> FALSE, read |-> FALSE, decoded |-> FALSE]]

(***************************************************************************)
(* Bulk calls: bounds and the idle state                                   *)
(***************************************************************************)
\* Slices buffered in the input channel of StreamExecute, and their length.
MaxSlices == 2
MaxSliceLen == 1
\* Chunks of the body the server streams to proxy.Read.
MaxChunks == 2

\* StreamExecute: for range []int{1, 2}
StreamExecuteAttempts == 2
\* StreamQuery: for i := 0; i <= 2; i++
StreamQueryAttempts == 3
\* Capacity of Rows.Data and of Rows.stop: make(chan ..., 1)
DataCap == 1

Attempts == 1..StreamQueryAttempts

NoProxy == [opened |-> FALSE, running |-> FALSE, closes |-> 0]
NoSock == [bytes |-> << >>, eof |-> FALSE, closed |-> FALSE, connected |-> FALSE]
NoWriter == [pc |-> "none", bw |-> 0, taken |-> << >>, out |-> << >>]
NoReader == [pc |-> "none", totalRead |-> 0, chunk |-> << >>]

\* No attempt of a bulk call has started.
InitNoAtt ==
    /\ SuppressError = FALSE
    /\ crashed = FALSE
    /\ proxy = [i \in Attempts |-> NoProxy]
    /\ sock = [i \in Attempts |-> NoSock]
    /\ dataErr = [i \in Attempts |-> << >>]
    /\ respErr = [i \in Attempts |-> << >>]
    /\ rcv = [i \in Attempts |-> "none"]
    /\ att = << >>

\* No StreamExecute in progress.
InitNoWrite ==
    /\ dataIn = << >>
    /\ dataOpen = FALSE
    /\ sePc = "none"
    /\ seIter = 0
    /\ seResult = nil
    /\ bytesWritten = [i \in Attempts |-> 0]
    /\ wr = [i \in Attempts |-> NoWriter]

\* No stream handle yet.
InitNoRows ==
    /\ sqIter = 0
    /\ errVar = [i \in Attempts |-> nil]
    /\ rError = nil
    /\ BytesRead = 0
    /\ rProxy = 0
    /\ Data = << >>
    /\ dataClosed = 0
    /\ stop = << >>
    /\ origCfg = FALSE
    /\ closes = << >>
    /\ rd = [i \in Attempts |-> NoReader]
    /\ pub = [i \in Attempts |-> << >>]
    /\ gotData = << >>
    /\ replies = [i \in Attempts |-> << >>]

\* No StreamQuery in progress.
InitNoRead ==
    /\ export = << >>
    /\ gPc = "none"
    /\ closePc = "none"
    /\ InitNoRows

\* No bulk call in progress.
InitNoBulk == QueryTimeout = 0 /\ InitNoAtt /\ InitNoWrite /\ InitNoRead

(***************************************************************************)
(* Session attributes and the authentication data                          *)
(***************************************************************************)
\* Largest query timeout (in seconds) and largest session id of the model.
MaxTimeout == 2
MaxSessionID == 2

\* The fields of Attributes the calls of client.go set; the zero value of
\* the struct.
ZeroAttr == [autocommit |-> FALSE, queryTimeout |-> 0, currentSchema |-> ""]

\* json.Marshal of an Attributes struct: every field is tagged omitempty,
\* so a field holding its zero value is not in the encoded object.
Marshal(a) == [k \in { f \in DOMAIN a : a[f] # ZeroAttr[f] } |-> a[k]]

\* json.Unmarshal into a fresh Attributes struct: keys present are stored,
\* the other fields keep the zero value.
Unmarshal(j) == [k \in DOMAIN ZeroAttr |-> IF k \in DOMAIN j THEN j[k] ELSE ZeroAttr[k]]

\* A request without an attributes block (the nil pointer is omitted).
NoBlock == [k \in {} |-> 0]

\* The server sets the attributes named in the block of a request it
\* executes and keeps the others.
ServerApply(attr, j) == [k \in DOMAIN attr |-> IF k \in DOMAIN j THEN j[k] ELSE attr[k]]

\* The attributes of a session the server just created (its default for
\* autocommit is a setting of the server).
ServerDefaults == [autocommit |-> TRUE, queryTimeout |-> 0, currentSchema |-> ""]

\* authReq.Attributes as login builds it from Conf.QueryTimeout (seconds).
authAttributes(t) ==
    IF t > 0 THEN [ZeroAttr EXCEPT !.autocommit = TRUE, !.queryTimeout = t]
    ELSE [ZeroAttr EXCEPT !.autocommit = TRUE]

\* AuthData of the authentication response.
AuthData == [SessionID : 1..MaxSessionID, ReleaseVersion : {"7.0", "7.1"}]
NoAuth == [SessionID |-> 0, ReleaseVersion |-> ""]

NoSession == [state |-> "none", SessionID |-> 0, Metadata |-> NoAuth, err |-> nil,
              msgs |-> << >>]

NoAttrCall == [op |-> "none", arg |-> 0, req |-> NoBlock, err |-> nil]

\* A host given by name, and the addresses of a range a.b.c.x..y.
PlainHost == [net |-> "db", n |-> 0]
IP(n) == [net |-> "a.b.c", n |-> n]

\* wsConnect not called, or not followed in detail.
NoDial == [host |-> [range |-> FALSE, from |-> 0, to |-> 0], pc |-> "idle",
           ips |-> << >>, tried |-> << >>, failed |-> FALSE, ws |-> << >>]

\* readLine not followed call by call.
NoLines == [bytes |-> << >>, eof |-> FALSE, closed |-> FALSE, log |-> << >>]

InitExtra == dial = NoDial /\ lines = NoLines

\* A session Connect returned, logged in with no QueryTimeout configured.
InitConnected ==
    /\ InitExtra
    /\ transport = "open"
    /\ \E d \in { [SessionID |-> 1, ReleaseVersion |-> "7.0"] } :
         /\ session = [NoSession EXCEPT !.state = "connected", !.SessionID = d.SessionID,
                                        !.Metadata = d,
                                        !.msgs = << [cmd |-> "login", err |-> nil],
                                                    [cmd |-> "authenticate", err |-> nil] >>]
         /\ srvAuth = d
    /\ srvAttr = ServerApply(ServerDefaults, Marshal(authAttributes(0)))
    /\ cliAttr = ZeroAttr
    /\ lastAttr = [NoAttrCall EXCEPT !.op = "login", !.req = Marshal(authAttributes(0))]

(***************************************************************************)
(* Prepared statements: prep-stmt.go, and the execute engine of client.go   *)
(***************************************************************************)
Req(cmd, sth, sql) == [cmd |-> cmd, sth |-> sth, sql |-> sql]

\* Parameters of a prepared statement.
NumParams == 2

\* parameterData.columns as the server describes them, reduced to the type.
ServerColumns == [i \in 1..NumParams |-> "DECIMAL"]

\* No dataTypes argument.
NoTypes == << >>

\* dataTypes arguments of Execute: none, or a type for the leading parameters.
DataTypeArgs == {NoTypes} \cup { [i \in 1..n |-> "VARCHAR"] : n \in 1..NumParams }

NoPS == [sth |-> 0, lastUsed |-> 0, columns |-> << >>]

EmptyCache == [s \in {} |-> NoPS]

Put(f, k, v) == [x \in DOMAIN f \cup {k} |-> IF x = k THEN v ELSE f[x]]
Del(f, k) == [x \in DOMAIN f \ {k} |-> f[x]]

\* The session (and the server's statement table) as one value, threaded
\* through the calls a handler makes.
Sess ==
    [ cache |-> prepStmtCache, Stats |-> Stats, now |-> now,
      nextSth |-> srvNextSth, srvOpen |-> srvOpen,
      closeCount |-> closeCount, sent |-> << >>, evicted |-> << >> ]

\* closePrepStmt: hand closePreparedStatement to send; the result is ignored.
closePrepStmt(S, sth) ==
    [S EXCEPT !.sent = Append(@, Req("closePreparedStatement", sth, 0)),
              !.closeCount[sth] = @ + 1,
              !.srvOpen = @ \ {sth}]

\* createPrepStmt: one createPreparedStatement round trip.
createPrepStmt(S, sql, w) ==
    LET r  == send(w)
        S1 == [S EXCEPT !.sent = Append(@, Req("createPreparedStatement", 0, sql))]
    IN  IF r.err # nil
        THEN [S |-> S1, ps |-> NoPS, err |-> r.err]
        ELSE [S   |-> [S1 EXCEPT !.nextSth = @ + 1,
                                 !.srvOpen = @ \cup {S.nextSth},
                                 !.now = @ + 1],
              ps  |-> [sth |-> S.nextSth, lastUsed |-> S.now + 1,
                       columns |-> ServerColumns],
              err |-> nil]

\* ps == nil after the lookup psc[sql]
cacheMiss_Always(cache, sql) == TRUE

cacheMiss(cache, sql) == sql \notin DOMAIN cache

\* sortedStmts[0] after sorting the keys by lastUsed
leastUsed_Newest(cache) ==
    CHOOSE s \in DOMAIN cache :
        \A t \in DOMAIN cache : cache[t].lastUsed <= cache[s].lastUsed

leastUsed(cache) ==
    CHOOSE s \in DOMAIN cache :
        \A t \in DOMAIN cache : cache[s].lastUsed <= cache[t].lastUsed

\* len(psc) > 1000
overLimit(cache) == Cardinality(DOMAIN cache) > CacheLimit

\* `body` applied to the value of x (x is evaluated once).
Bind(x, body(_)) == CHOOSE r \in { body(v) : v \in {x} } : TRUE

\* psc[sql] = ps; Stats["StmtCacheLen"] = len(psc); Stats["StmtCacheMiss"]++
insertStmt(S, sql, ps) ==
    Bind(Put(S.cache, sql, ps), LAMBDA psc :
        [S EXCEPT !.cache = psc,
                  !.Stats = [StmtCacheLen  |-> Cardinality(DOMAIN psc),
                             StmtCacheMiss |-> @.StmtCacheMiss + 1]])

\* ps.lastUsed = time.Now()
touchStmt(S, sql) ==
    [S EXCEPT !.now = @ + 1, !.cache[sql].lastUsed = S.now + 1]

\* the pruning block: close and drop the entry used least recently
pruneCache(S) ==
    IF overLimit(S.cache)
    THEN Bind(leastUsed(S.cache), LAMBDA lu :
           Bind(closePrepStmt(S, S.cache[lu].sth), LAMBDA sc :
             [sc EXCEPT !.cache = Del(@, lu),
                        !.evicted = Append(@, [sql |-> lu, sth |-> S.cache[lu].sth])]))
    ELSE S

\* getPrepStmt: look up or create, stamp lastUsed, prune.
getPrepStmt(S, sql, w) ==
    IF cacheMiss(S.cache, sql)
    THEN Bind(createPrepStmt(S, sql, w), LAMBDA c :
           IF c.err # nil
           THEN [S |-> c.S, ps |-> NoPS, err |-> c.err]
           ELSE Bind(touchStmt(insertStmt(c.S, sql, c.ps), sql), LAMBDA S3 :
                  [S |-> pruneCache(S3), ps |-> S3.cache[sql], err |-> nil]))
    ELSE Bind(touchStmt(S, sql), LAMBDA S3 :
           [S |-> pruneCache(S3), ps |-> S3.cache[sql], err |-> nil])

\* err != nil && regexp "Statement handle not found" matches err.Error()
staleHandle(err) == err # nil /\ MatchStmtHandleNotFound(err.text)

\* What the server may answer to createPreparedStatement.
CreateWire(miss) ==
    IF miss THEN { w \in Wire : w.Text # "Statement handle not found" }
    ELSE {OkWire}

\* What the server may answer to executePreparedStatement on handle sth:
\* a handle it no longer knows is always rejected.
ExecWire(S, sth) ==
    IF sth \in S.srvOpen THEN Wire
    ELSE { w \in Wire : w.Status # "ok"
                         /\ (w.Status = "error" => w.Text = "Statement handle not found") }

RowCountsFor(w) == IF w.Status = "ok" THEN RowCounts ELSE {0}

\* ReadJSON into the shared execRes: only a decoded ok response carries a
\* responseData that replaces the row count.
decodeInto(res, w, rc) ==
    IF w.writeErr = "nil" /\ w.readErr = "nil" /\ w.Status = "ok"
    THEN [rowCount |-> rc]
    ELSE res

NoCall ==
    [ op |-> "none", sql |-> 0, err |-> nil, rows |-> 0, hit |-> FALSE,
      firstErr |-> nil, retry |-> "none", retryErr |-> nil, retryRows |-> 0,
      execSths |-> << >>, created |-> {}, evicted |-> << >>,
      dataTypes |-> NoTypes, Columns |-> << >>,
      before |-> EmptyCache, statsBefore |-> [StmtCacheLen |-> 0, StmtCacheMiss |-> 0] ]

Commit(S, call) ==
    /\ prepStmtCache' = S.cache
    /\ Stats' = S.Stats
    /\ now' = S.now
    /\ srvNextSth' = S.nextSth
    /\ srvOpen' = S.srvOpen
    /\ closeCount' = S.closeCount
    /\ sent' = S.sent
    /\ lastCall' = [call EXCEPT !.evicted = S.evicted,
                                !.created = srvNextSth..(S.nextSth - 1),
                                !.before = prepStmtCache,
                                !.statsBefore = Stats]
    /\ calls' = calls + 1
    /\ UNCHANGED << sessVars, CachePrepStmts, wsOpen, lastSend, fetchVars, bulkVars >>

\* if !c.Conf.CachePrepStmts { c.closePrepStmt(ps.sth) }; return res, err
\* followed by Execute's mapping of (res, err) to (rowsAffected, err).
finish(S, ps, res, err, call) ==
    \E S1 \in { IF ~CachePrepStmts THEN closePrepStmt(S, ps.sth) ELSE S } :
        Commit(S1, [call EXCEPT !.err = err,
                                !.rows = IF err # nil THEN 0 ELSE res.rowCount])

logExec(S, sth, sql) ==
    [S EXCEPT !.sent = Append(@, Req("executePreparedStatement", sth, sql))]

\* The retry block of executePrepStmt.  The block declares its own ps and
\* err, so the handle closed and the error returned after it are those of
\* the first attempt (ps1, err1).
retryPrepStmt(S1, sql, ps1, err1, res1, call1) ==
    \E w3 \in CreateWire(TRUE) :
    \E g2 \in { getPrepStmt([S1 EXCEPT !.cache = Del(@, sql)], sql, w3) } :
      IF g2.err # nil
      THEN Commit(g2.S, [call1 EXCEPT !.err = g2.err,
                                      !.retry = "prepfail",
                                      !.retryErr = g2.err])
      ELSE
        \E w4 \in ExecWire(g2.S, g2.ps.sth) : \E rc4 \in RowCountsFor(w4) :
        \E err2 \in { send(w4).err } :
        \E res2 \in { decodeInto(res1, w4, rc4) } :
        \E S2 \in { logExec(g2.S, g2.ps.sth, sql) } :
          finish(S2, ps1, res2, err1,
                 [call1 EXCEPT
                    !.retry = IF err2 = nil THEN "ok" ELSE "failed",
                    !.retryErr = err2,
                    !.retryRows = res2.rowCount,
                    !.execSths = << ps1.sth, g2.ps.sth >>])

\* for i, dt := range dataTypes { ps.columns[i].DataType = dt }
overrideTypes(g, sql, dataTypes) ==
    Bind([i \in DOMAIN g.ps.columns |->
             IF i <= Len(dataTypes) THEN dataTypes[i] ELSE g.ps.columns[i]],
         LAMBDA cols :
           [g EXCEPT !.ps.columns = cols,
                     !.S.cache = IF sql \in DOMAIN @ /\ @[sql].sth = g.ps.sth
                                 THEN [@ EXCEPT ![sql].columns = cols]
                                 ELSE @])

\* Execute with binds: Conn.Execute -> Conn.execute -> Conn.executePrepStmt.
\* ps points at the cache entry, and req.Columns is the entry's slice.
executePrepStmt(sql, dataTypes) ==
    \E call0 \in { [NoCall EXCEPT !.op = "Execute", !.sql = sql,
                                  !.dataTypes = dataTypes,
                                  !.hit = sql \in DOMAIN prepStmtCache] } :
    \E w1 \in CreateWire(cacheMiss(prepStmtCache, sql)) :
    \E g0 \in { getPrepStmt(Sess, sql, w1) } :
      IF g0.err # nil
      THEN Commit(g0.S, [call0 EXCEPT !.err = g0.err, !.firstErr = g0.err])
      ELSE
        \E g1 \in { overrideTypes(g0, sql, dataTypes) } :
        \E w2 \in ExecWire(g1.S, g1.ps.sth) : \E rc2 \in RowCountsFor(w2) :
        \E err1 \in { send(w2).err } :
        \E res1 \in { decodeInto([rowCount |-> 0], w2, rc2) } :
        \E S1 \in { logExec(g1.S, g1.ps.sth, sql) } :
        \E call1 \in { [call0 EXCEPT !.firstErr = err1,
                                     !.Columns = g1.ps.columns,
                                     !.execSths = << g1.ps.sth >>] } :
          IF staleHandle(err1)
          THEN retryPrepStmt(S1, sql, g1.ps, err1, res1, call1)
          ELSE finish(S1, g1.ps, res1, err1, call1)

\* Execute(sql, binds, schema, dataTypes)
ExecuteWith(sql, dataTypes) ==
    /\ wsOpen
    /\ calls < MaxCalls
    /\ executePrepStmt(sql, dataTypes)

\* Execute(sql, binds)
Execute(sql) == ExecuteWith(sql, NoTypes)

\* The orders in which a range over the cache map may visit its keys.
Orders(keys) ==
    { o \in [1..Cardinality(keys) -> keys] :
        \A i, j \in 1..Cardinality(keys) : i # j => o[i] # o[j] }

RECURSIVE closeAll(_, _, _)
closeAll(S, cache, order) ==
    IF order = << >> THEN S
    ELSE closeAll(closePrepStmt(S, cache[Head(order)].sth), cache, Tail(order))

\* Disconnect: close every cached handle, send disconnect, drop the transport.
\* The results of the requests are ignored or only logged.  Once c.ws is nil
\* the first request of another Disconnect dereferences it.
Disconnect ==
    /\ ~crashed
    /\ session.state = "connected"
    /\ lastCall' = [NoCall EXCEPT !.op = "Disconnect",
                                  !.before = prepStmtCache,
                                  !.statsBefore = Stats]
    /\ IF wsOpen
       THEN /\ \E order \in Orders(DOMAIN prepStmtCache) :
                 \E S2 \in { [closeAll(Sess, prepStmtCache, order) EXCEPT
                                !.sent = Append(@, Req("disconnect", 0, 0))] } :
                     /\ prepStmtCache' = S2.cache
                     /\ Stats' = S2.Stats
                     /\ now' = S2.now
                     /\ srvNextSth' = S2.nextSth
                     /\ srvOpen' = S2.srvOpen
                     /\ closeCount' = S2.closeCount
                     /\ sent' = S2.sent
            /\ calls' = calls + 1
            /\ wsOpen' = FALSE
            /\ transport' = "closed"
            /\ crashed' = crashed
       ELSE /\ crashed' = TRUE
            /\ UNCHANGED << prepStmtCache, Stats, now, srvNextSth, srvOpen, closeCount,
                            sent, calls, wsOpen, transport >>
    /\ UNCHANGED << session, srvAuth, srvAttr, cliAttr, lastAttr, extraVars, CachePrepStmts,
                    lastSend, fetchVars, QueryTimeout, SuppressError, proxy, sock, dataErr, respErr,
                    rcv, att, writeVars, readVars >>

\* The fields of a Conn as Connect builds it, and a server without statements.
InitConn ==
    /\ prepStmtCache = EmptyCache
    /\ Stats = [StmtCacheLen |-> 0, StmtCacheMiss |-> 0]
    /\ now = 0
    /\ srvNextSth = 1
    /\ srvOpen = {}
    /\ closeCount = [h \in Handles |-> 0]
    /\ sent = << >>
    /\ lastCall = NoCall
    /\ calls = 0

InitStmt ==
    /\ CachePrepStmts \in BOOLEAN
    /\ wsOpen = TRUE
    /\ InitConnected
    /\ InitConn

NoResultSet == [NumRows |-> 0, ResultSetHandle |-> 0, Data |-> << >>]

\* No FetchChan in progress.
InitNoFetch ==
    /\ rs = NoResultSet
    /\ ppc = "none"
    /\ fi = 0
    /\ pending = << >>
    /\ ch = << >>
    /\ chClosed = FALSE
    /\ got = << >>
    /\ wire = << >>
    /\ fetchLog = << >>
    /\ closeRSCount = 0
    /\ upc = "idle"
    /\ ucmds = 0
    /\ misread = FALSE

InitSend == lastSend = NoSend /\ InitStmt /\ InitNoFetch /\ InitNoBulk

NextStmt == (\E sql \in SQLs : Execute(sql)) \/ Disconnect

SpecStmt == InitSend /\ [][NextStmt]_vars


(***************************************************************************)
(* Result sets: FetchChan, resultsToChan, transposeToChan                   *)
(***************************************************************************)
\* The value in column c of row r of the server's result.
Cell(r, c) == << r, c >>

\* Row r as the consumer should see it.
Row(r) == [c \in 1..NumCols |-> Cell(r, c)]

AllRows(n) == [r \in 1..n |-> Row(r)]

\* The wire format is column-major: the k rows after position p.
ServerData(p, k) == [c \in 1..NumCols |-> [j \in 1..k |-> Cell(p + j, c)]]

RSHandle == 7

\* The result sets FetchChan may hand to the producer: an inline one (no
\* handle, all rows in Data), or a paged one (a handle, which the server
\* issues only when the rows did not fit, with or without an initial block).
ResultSets ==
    { [NumRows |-> n, ResultSetHandle |-> 0, Data |-> ServerData(0, n)] :
        n \in 0..MaxRows }
    \cup
    UNION { { [NumRows |-> n, ResultSetHandle |-> RSHandle,
               Data |-> IF d = 0 THEN << >> ELSE ServerData(0, d)] :
                d \in 0..n } : n \in 1..MaxRows }

\* rs.ResultSetHandle > 0
hasHandle_Always(r) == TRUE

hasHandle(r) == r.ResultSetHandle > 0

\* i += fetchRes.ResponseData.NumRows
nextStart_One(i, fetchRes) == i + 1

nextStart(i, fetchRes) == i + fetchRes.NumRows

\* transposeToChan: the rows of a columnar matrix, in order.  matrix[0] of
\* an empty matrix is an index out of range.
transposeRows(matrix) ==
    [row \in 1..Len(matrix[1]) |-> [col \in 1..Len(matrix) |-> matrix[col][row]]]

\* A response on the wire: who wrote the request, the command, what the
\* transport and the server made of it, and the fetch payload.
Response(to, cmd, w, n, data) ==
    [to |-> to, cmd |-> cmd, w |-> w, NumRows |-> n, Data |-> data]

\* What the server may answer to fetch at startPosition p of a result of n
\* rows: any non-empty run of the remaining rows, or no rows at all (with
\* empty columns, or without a data block).
FetchReplies(w, p, n) ==
    IF w.Status = "ok"
    THEN { Response("producer", "fetch", w, k, ServerData(p, k)) : k \in 0..(n - p) }
         \cup { Response("producer", "fetch", w, 0, << >>) }
    ELSE { Response("producer", "fetch", w, 0, << >>) }

\* ReadJSON of a response into a fetchRes: a response to another command
\* carries no fetch data.
decodeFetch(h) ==
    IF h.cmd = "fetch" THEN [NumRows |-> h.NumRows, Data |-> h.Data]
    ELSE [NumRows |-> 0, Data |-> << >>]

\* The process runs: no goroutine has panicked (panic(err) after a failed
\* fetch, or an index out of range in transposeToChan).
Alive == ppc \notin {"none", "panic", "panic(err)"}

producerVars == << rs, ppc, fi, pending, chClosed, fetchLog, closeRSCount >>

\* resultsToChan: the branch on NumRows and ResultSetHandle.
P_Start ==
    /\ ppc = "start"
    /\ IF rs.NumRows = 0
       THEN ppc' = "close" /\ pending' = pending
       ELSE IF hasHandle(rs)
       THEN ppc' = "fetchSend" /\ pending' = pending
       ELSE IF rs.Data = << >>
       THEN ppc' = "panic" /\ pending' = pending
       ELSE ppc' = "emit" /\ pending' = transposeRows(rs.Data)
    /\ UNCHANGED << sessVars, lastSend, stmtVars, bulkVars, rs, fi, ch, chClosed, got, wire, fetchLog, closeRSCount,
                    upc, ucmds, misread >>

\* The loop test and the write half of c.send(fetchReq, fetchRes).
P_FetchSend ==
    /\ ppc = "fetchSend"
    /\ fi < rs.NumRows
    /\ Len(fetchLog) < MaxFetches
    /\ \E w \in Wire :
         IF asyncSend(w).err # nil
         THEN /\ ppc' = "panic(err)"
              /\ UNCHANGED << wire, fetchLog >>
         ELSE /\ \E r \in FetchReplies(w, fi, rs.NumRows) : wire' = Append(wire, r)
              /\ fetchLog' = Append(fetchLog, fi)
              /\ ppc' = "fetchRecv"
    /\ UNCHANGED << sessVars, lastSend, stmtVars, bulkVars, rs, fi, pending, ch, chClosed, got, closeRSCount,
                    upc, ucmds, misread >>

\* The read half: panic on error, else advance i and transpose the chunk.
P_FetchRecv ==
    /\ ppc = "fetchRecv"
    /\ wire # << >>
    /\ \E h \in { Head(wire) } :
       \E fetchRes \in { decodeFetch(h) } :
         /\ wire' = Tail(wire)
         /\ misread' = (misread \/ h.to # "producer")
         /\ IF receiver(h.w) # nil
            THEN ppc' = "panic(err)" /\ UNCHANGED << fi, pending >>
            ELSE /\ fi' = nextStart(fi, fetchRes)
                 /\ IF fetchRes.Data = << >>
                    THEN ppc' = "panic" /\ pending' = pending
                    ELSE ppc' = "emit" /\ pending' = transposeRows(fetchRes.Data)
    /\ UNCHANGED << sessVars, lastSend, stmtVars, bulkVars, rs, ch, chClosed, got, fetchLog, closeRSCount, upc, ucmds >>

\* transposeToChan: ch <- ret, blocking while the channel is full.
P_Emit ==
    /\ ppc = "emit"
    /\ pending # << >>
    /\ Len(ch) < ChanCap
    /\ ch' = Append(ch, Head(pending))
    /\ pending' = Tail(pending)
    /\ UNCHANGED << sessVars, lastSend, stmtVars, bulkVars, rs, ppc, fi, chClosed, got, wire, fetchLog, closeRSCount,
                    upc, ucmds, misread >>

\* transposeToChan returns: back to the loop, or on to close(ch).
P_EmitDone ==
    /\ ppc = "emit"
    /\ pending = << >>
    /\ ppc' = IF hasHandle(rs) THEN "fetchSend" ELSE "close"
    /\ UNCHANGED << sessVars, lastSend, stmtVars, bulkVars, rs, fi, pending, ch, chClosed, got, wire, fetchLog,
                    closeRSCount, upc, ucmds, misread >>

\* The loop is over: the write half of c.send(closeRSReq, &response{}).
P_CloseSend ==
    /\ ppc = "fetchSend"
    /\ ~(fi < rs.NumRows)
    /\ closeRSCount' = closeRSCount + 1
    /\ \E w \in Wire :
         IF asyncSend(w).err # nil
         THEN ppc' = "close" /\ wire' = wire
         ELSE /\ wire' = Append(wire, Response("producer", "closeResultSet", w, 0, << >>))
              /\ ppc' = "closeRecv"
    /\ UNCHANGED << sessVars, lastSend, stmtVars, bulkVars, rs, fi, pending, ch, chClosed, got, fetchLog,
                    upc, ucmds, misread >>

\* The read half; an error is only logged.
P_CloseRecv ==
    /\ ppc = "closeRecv"
    /\ wire # << >>
    /\ misread' = (misread \/ Head(wire).to # "producer")
    /\ wire' = Tail(wire)
    /\ ppc' = "close"
    /\ UNCHANGED << sessVars, lastSend, stmtVars, bulkVars, rs, fi, pending, ch, chClosed, got, fetchLog, closeRSCount,
                    upc, ucmds >>

\* close(ch)
P_Close ==
    /\ ppc = "close"
    /\ chClosed' = TRUE
    /\ ppc' = "done"
    /\ UNCHANGED << sessVars, lastSend, stmtVars, bulkVars, rs, fi, pending, ch, got, wire, fetchLog, closeRSCount,
                    upc, ucmds, misread >>

resultsToChan ==
    \/ P_Start \/ P_FetchSend \/ P_FetchRecv \/ P_Emit \/ P_EmitDone
    \/ P_CloseSend \/ P_CloseRecv \/ P_Close

\* The consumer (FetchSlice, or the caller ranging over the channel).
Consume ==
    /\ Alive
    /\ ch # << >>
    /\ got' = Append(got, Head(ch))
    /\ ch' = Tail(ch)
    /\ UNCHANGED << sessVars, lastSend, stmtVars, bulkVars, producerVars, pending, wire, upc, ucmds, misread >>

\* The caller issues another command on the session while the producer
\* runs: the write half of send ...
CallerSend ==
    /\ Alive
    /\ upc = "idle"
    /\ ucmds < MaxUserCmds
    /\ ucmds' = ucmds + 1
    /\ \E w \in Wire :
         IF asyncSend(w).err # nil
         THEN UNCHANGED << wire, upc >>
         ELSE /\ wire' = Append(wire, Response("caller", "execute", w, 0, << >>))
              /\ upc' = "wait"
    /\ UNCHANGED << sessVars, lastSend, stmtVars, bulkVars, producerVars, pending, ch, got, misread >>

\* ... and its read half.
CallerRecv ==
    /\ Alive
    /\ upc = "wait"
    /\ wire # << >>
    /\ misread' = (misread \/ Head(wire).to # "caller")
    /\ wire' = Tail(wire)
    /\ upc' = "idle"
    /\ UNCHANGED << sessVars, lastSend, stmtVars, bulkVars, producerVars, pending, ch, got, ucmds >>

\* FetchChan has returned: the producer goroutine is about to run.
InitFetch ==
    /\ lastSend = NoSend
    /\ InitStmt
    /\ InitNoBulk
    /\ CachePrepStmts = FALSE
    /\ rs \in ResultSets
    /\ ppc = "start"
    /\ fi = 0
    /\ pending = << >>
    /\ ch = << >>
    /\ chClosed = FALSE
    /\ got = << >>
    /\ wire = << >>
    /\ fetchLog = << >>
    /\ closeRSCount = 0
    /\ upc = "idle"
    /\ ucmds = 0
    /\ misread = FALSE

NextFetch == resultsToChan \/ Consume

\* The producer and its consumer alone on the session.
SpecFetch == InitFetch /\ [][NextFetch]_vars

NextConc == resultsToChan \/ Consume \/ CallerSend \/ CallerRecv

\* The producer, its consumer, and the caller using the session meanwhile.
SpecConc == InitFetch /\ [][NextConc]_vars

(***************************************************************************)
(* The bulk proxy: proxy.go                                                *)
(***************************************************************************)
CR == "CR"
LF == "LF"
CRLF == << CR, LF >>

HexDigits == << "0", "1", "2", "3", "4", "5", "6", "7",
                "8", "9", "a", "b", "c", "d", "e", "f" >>

\* strconv.FormatInt(n, 16)
RECURSIVE FormatHex(_)
FormatHex(n) ==
    IF n < 16 THEN << HexDigits[n + 1] >>
    ELSE Append(FormatHex(n \div 16), HexDigits[(n % 16) + 1])

HexValue(b) ==
    IF \E d \in 1..16 : HexDigits[d] = b
    THEN (CHOOSE d \in 1..16 : HexDigits[d] = b) - 1
    ELSE -1

\* strconv.ParseInt(string(line), 16, 64); -1 stands for its syntax error
RECURSIVE ParseHexFrom(_, _)
ParseHexFrom(line, acc) ==
    IF line = << >> THEN acc
    ELSE IF HexValue(Head(line)) < 0 THEN -1
    ELSE ParseHexFrom(Tail(line), acc * 16 + HexValue(Head(line)))

ParseHex(line) == IF line = << >> THEN -1 ELSE ParseHexFrom(line, 0)

\* One chunk of a chunked body, and the terminating chunk.
EncodeChunk(c) == FormatHex(Len(c)) \o CRLF \o c \o CRLF

LastChunk == << "0" >> \o CRLF \o CRLF

RECURSIVE EncodeBody(_)
EncodeBody(chunks) ==
    IF chunks = << >> THEN LastChunk
    ELSE EncodeChunk(Head(chunks)) \o EncodeBody(Tail(chunks))

\* The request headers the server sends when it connects to the proxy.
RequestHeaders == << "H" >> \o CRLF \o CRLF

\* The loop of readLine over the unread bytes b of a socket whose remote
\* end is gone (eof) or not.  A read that finds no byte blocks, or fails when
\* the remote end is gone; the error is assigned to a variable local to the
\* loop, so readLine returns the line read so far and a nil error (eol tells
\* whether the line was ended by CR LF).
RECURSIVE readLineLoop(_, _, _)
readLineLoop(b, line, eof) ==
    IF b = << >>
    THEN [st |-> IF eof THEN "ok" ELSE "block", line |-> line, rest |-> b, eol |-> FALSE]
    ELSE IF Head(b) = CR
    THEN IF Tail(b) = << >>
         THEN [st |-> IF eof THEN "ok" ELSE "block", line |-> line, rest |-> << >>,
               eol |-> FALSE]
         ELSE IF b[2] = LF
         THEN [st |-> "ok", line |-> line, rest |-> Tail(Tail(b)), eol |-> TRUE]
         ELSE readLineLoop(Tail(Tail(b)), line \o << CR, b[2] >>, eof)
    ELSE readLineLoop(Tail(b), Append(line, Head(b)), eof)

\* readLine on socket s: on a socket closed locally the first read fails.
readLine(s) ==
    IF s.closed THEN [st |-> "ok", line |-> << >>, rest |-> s.bytes, eol |-> FALSE]
    ELSE readLineLoop(s.bytes, << >>, s.eof)

\* readHeaders: lines up to the first empty one (never an error, see
\* readLine); blank tells whether that was a blank line of the input.
RECURSIVE readHeaders(_)
readHeaders(s) ==
    IF readLine(s).st = "block" THEN [st |-> "block", rest |-> s.bytes, blank |-> FALSE]
    ELSE IF readLine(s).line = << >>
    THEN [st |-> "ok", rest |-> readLine(s).rest, blank |-> readLine(s).eol]
    ELSE readHeaders([s EXCEPT !.bytes = readLine(s).rest])

\* Shutdown past its test: p.conn.Close(); p.running = false
closeConn(p) == [p EXCEPT !.running = FALSE, !.closes = @ + 1]

\* Shutdown
Shutdown(p) == IF p.running THEN closeConn(p) ELSE p

\* conn.Close() as the socket sees it: what was not read is lost.
CloseSock(s) == [s EXCEPT !.bytes = << >>, !.closed = TRUE]

(***************************************************************************)
(* The bulk coordinator: bulk_api.go                                       *)
(***************************************************************************)
RetryableText == "failed after 0 bytes: Connection refused"

\* regexp `failed after 0 bytes.+Connection refused`
MatchRetryable(text) == text \in {RetryableText}

retryableError_AnyError(err) == err # nil

retryableError(err) == err # nil /\ MatchRetryable(err.text)

\* What the transport and the server make of the execute request of one
\* attempt.
BulkWire ==
    { OkWire,
      [writeErr |-> "broken pipe", readErr |-> "nil", Status |-> "", Text |-> ""],
      [writeErr |-> "nil", readErr |-> "i/o timeout", Status |-> "", Text |-> ""],
      [writeErr |-> "nil", readErr |-> "nil", Status |-> "error", Text |-> "syntax error"],
      [writeErr |-> "nil", readErr |-> "nil", Status |-> "error", Text |-> RetryableText] }

\* The environment of one attempt: whether NewProxy succeeds, what becomes
\* of the execute request, whether the server connects to the proxy.
AttemptEnv ==
    { o \in [dial : BOOLEAN, w : BulkWire, connect : BOOLEAN] :
        /\ ~o.dial => (o.w = OkWire /\ ~o.connect)
        /\ o.w.writeErr # "nil" => ~o.connect }

\* The error of initProxy
initProxyErr(o) ==
    IF ~o.dial THEN [kind |-> "Unable to setup proxy (1)", text |-> "connection refused"]
    ELSE asyncSend(o.w).err

\* fmt.Errorf("Unable to import or export data: %s\n%s", origSQL, err)
wrapErr(e) == [kind |-> "Unable to import or export data: " \o e.kind, text |-> e.text]

\* initProxy for attempt i under o: the proxy is opened (the server
\* writing `stream` to it if it connects), the request written and answered
\* by the server; a failed asyncSend shuts the proxy down.
initProxy(i, o, stream) ==
    /\ proxy' = [proxy EXCEPT ![i] =
                    IF ~o.dial THEN @
                    ELSE IF initProxyErr(o) # nil
                    THEN [opened |-> TRUE, running |-> FALSE, closes |-> 1]
                    ELSE [opened |-> TRUE, running |-> TRUE, closes |-> 0]]
    /\ sock' = [sock EXCEPT ![i] =
                    IF ~o.dial THEN @
                    ELSE IF initProxyErr(o) # nil
                    THEN [bytes |-> << >>, eof |-> FALSE, closed |-> TRUE,
                          connected |-> FALSE]
                    ELSE [bytes |-> IF o.connect THEN stream.bytes ELSE << >>,
                          eof |-> o.connect /\ stream.eof, closed |-> FALSE,
                          connected |-> o.connect]]
    /\ wire' = IF initProxyErr(o) = nil
               THEN Append(wire, Response(i, "execute", o.w, 0, << >>))
               ELSE wire

\* The goroutine that calls receiver(&response{}) and reports on respErr.
Receive(i) ==
    /\ ~crashed
    /\ rcv[i] = "wait"
    /\ wire # << >>
    /\ rcv' = [rcv EXCEPT ![i] = "done"]
    /\ respErr' = [respErr EXCEPT ![i] = Append(@, receiver(Head(wire).w))]
    /\ misread' = (misread \/ Head(wire).to # i)
    /\ wire' = Tail(wire)
    /\ UNCHANGED << sessVars, lastSend, stmtVars, rowVars, writeVars, readVars,
                    QueryTimeout, SuppressError, crashed, proxy, sock, dataErr, att >>

waitsForOther_Never(err) == FALSE

\* if err == nil { err = <-other }
waitsForOther(err) == err = nil

(***************************************************************************)
(* The write path: StreamExecute, streamExecuteNoRetry, Proxy.Write        *)
(***************************************************************************)
\* Slices a caller may have buffered in the (closed) input channel, by length.
SliceOf(k) == [j \in 1..k |-> "x"]

Slices == UNION { [1..n -> { SliceOf(k) : k \in 0..MaxSliceLen }] : n \in 0..MaxSlices }

\* sendHeaders: every header line, then an empty line, each ended by CR LF
\* (a line is one element here).
RECURSIVE sendHeaders(_)
sendHeaders(headers) ==
    IF headers = << >> THEN CRLF
    ELSE << Head(headers) >> \o CRLF \o sendHeaders(Tail(headers))

\* The response headers of Proxy.Write
WriteReply ==
    << "HTTP/1.1 200 OK", "Content-Type: application/octet-stream",
       "Content-Disposition: attachment; filename=data.csv",
       "Transfer-Encoding: chunked", "Connection: close" >>

\* proxy.Write returns: bytesWritten, e = proxy.Write(data); dataErr <- e
\* (w is the writer's state at its return)
writerReturns(i, w, e) ==
    /\ wr' = [wr EXCEPT ![i] = [w EXCEPT !.pc = "done"]]
    /\ bytesWritten' = [bytesWritten EXCEPT ![i] = w.bw]
    /\ dataErr' = [dataErr EXCEPT ![i] = Append(@, e)]

\* Proxy.Write up to its loop: readHeaders, then the response headers.
W_Headers(i) ==
    /\ ~crashed
    /\ wr[i].pc = "readHeaders"
    /\ readHeaders(sock[i]).st = "ok"
    /\ sock' = [sock EXCEPT ![i].bytes = readHeaders(sock[i]).rest]
    /\ \E ioOk \in BOOLEAN :
         IF sock[i].closed \/ ~ioOk
         THEN writerReturns(i, wr[i], [kind |-> "Unable to send headers to proxy",
                                       text |-> "use of closed network connection"])
         ELSE /\ wr' = [wr EXCEPT ![i].pc = "range", ![i].out = sendHeaders(WriteReply)]
              /\ UNCHANGED << bytesWritten, dataErr >>
    /\ UNCHANGED << sessVars, lastSend, stmtVars, fetchVars, readVars, QueryTimeout, SuppressError,
                    crashed, proxy, respErr, rcv, att, dataIn, dataOpen, sePc, seIter, seResult >>

\* One turn of `for b := range data`: take a slice, count it, write its
\* chunk (only the write of the slice itself is checked; after a failed
\* write nothing more reaches the server); after the loop the final zero
\* chunk, and return.
W_Range(i) ==
    /\ ~crashed
    /\ wr[i].pc = "range"
    /\ dataIn # << >> \/ ~dataOpen
    /\ IF dataIn = << >>
       THEN /\ writerReturns(i, [wr[i] EXCEPT !.out = IF sock[i].closed THEN @
                                                      ELSE @ \o LastChunk], nil)
            /\ dataIn' = dataIn
       ELSE /\ dataIn' = Tail(dataIn)
            /\ \E ioOk \in BOOLEAN :
                 IF sock[i].closed \/ ~ioOk
                 THEN writerReturns(i, [wr[i] EXCEPT
                                          !.bw = @ + Len(Head(dataIn)),
                                          !.taken = Append(@, Head(dataIn)),
                                          !.out = IF sock[i].closed THEN @
                                                  ELSE @ \o FormatHex(Len(Head(dataIn)))
                                                         \o CRLF],
                                    [kind |-> "Unable to upload data to proxy (2)",
                                     text |-> "broken pipe"])
                 ELSE /\ wr' = [wr EXCEPT ![i].bw = @ + Len(Head(dataIn)),
                                          ![i].taken = Append(@, Head(dataIn)),
                                          ![i].out = @ \o EncodeChunk(Head(dataIn))]
                      /\ UNCHANGED << bytesWritten, dataErr >>
    /\ UNCHANGED << sessVars, lastSend, stmtVars, fetchVars, readVars, QueryTimeout, SuppressError,
                    crashed, proxy, sock, respErr, rcv, att, dataOpen, sePc, seIter, seResult >>

TimedOutExecute == [kind |-> "Timed out doing StreamExecute", text |-> ""]

\* streamExecuteNoRetry returns e: the deferred Shutdown, and the results
\* (taken: how many slices proxy.Write has received from the channel so far).
attemptReturns(i, e, first, firstErr, second, secondErr) ==
    /\ att' = Append(att, [i |-> i, bw |-> bytesWritten[i], taken |-> Len(wr[i].taken),
                           err |-> IF e = nil THEN nil ELSE wrapErr(e),
                           first |-> first, firstErr |-> firstErr,
                           second |-> second, secondErr |-> secondErr])
    /\ proxy' = [proxy EXCEPT ![i] = Shutdown(@)]
    /\ sock' = [sock EXCEPT ![i] = CloseSock(@)]
    /\ sePc' = "decide"

\* One turn of the loop of StreamExecute: streamExecuteNoRetry up to its
\* select (initProxy, the two goroutines, the timer).
SE_Attempt ==
    /\ ~crashed
    /\ sePc = "loop"
    /\ seIter' = seIter + 1
    /\ \E o \in AttemptEnv :
         /\ initProxy(seIter + 1, o, [bytes |-> RequestHeaders, eof |-> FALSE])
         /\ IF initProxyErr(o) # nil
            THEN /\ att' = Append(att, [i |-> seIter + 1, bw |-> 0, taken |-> 0,
                                        err |-> wrapErr(initProxyErr(o)),
                                        first |-> "init", firstErr |-> initProxyErr(o),
                                        second |-> "none", secondErr |-> nil])
                 /\ sePc' = "decide"
                 /\ UNCHANGED << wr, rcv >>
            ELSE /\ wr' = [wr EXCEPT ![seIter + 1] = [NoWriter EXCEPT !.pc = "readHeaders"]]
                 /\ rcv' = [rcv EXCEPT ![seIter + 1] = "wait"]
                 /\ sePc' = "select"
                 /\ att' = att
    /\ UNCHANGED << sessVars, lastSend, stmtVars, rowVars, misread, readVars, QueryTimeout,
                    SuppressError, crashed, dataErr, respErr, dataIn, dataOpen, seResult, bytesWritten >>

\* case err = <-dataErr
SE_SelectData ==
    /\ ~crashed
    /\ sePc = "select"
    /\ dataErr[seIter] # << >>
    /\ dataErr' = [dataErr EXCEPT ![seIter] = Tail(@)]
    /\ \E e \in { Head(dataErr[seIter]) } :
         IF waitsForOther(e)
         THEN sePc' = "waitResp" /\ UNCHANGED << att, proxy, sock >>
         ELSE attemptReturns(seIter, e, "data", e, "none", nil)
    /\ UNCHANGED << sessVars, lastSend, stmtVars, fetchVars, readVars, QueryTimeout, SuppressError,
                    crashed, respErr, rcv, dataIn, dataOpen, seIter, seResult, bytesWritten, wr >>

\* case err = <-respErr
SE_SelectResp ==
    /\ ~crashed
    /\ sePc = "select"
    /\ respErr[seIter] # << >>
    /\ respErr' = [respErr EXCEPT ![seIter] = Tail(@)]
    /\ \E e \in { Head(respErr[seIter]) } :
         IF waitsForOther(e)
         THEN sePc' = "waitData" /\ UNCHANGED << att, proxy, sock >>
         ELSE attemptReturns(seIter, e, "resp", e, "none", nil)
    /\ UNCHANGED << sessVars, lastSend, stmtVars, fetchVars, readVars, QueryTimeout, SuppressError,
                    crashed, dataErr, rcv, dataIn, dataOpen, seIter, seResult, bytesWritten, wr >>

\* case <-timeout
SE_Timeout ==
    /\ ~crashed
    /\ sePc = "select"
    /\ QueryTimeout > 0
    /\ attemptReturns(seIter, TimedOutExecute, "timeout", TimedOutExecute, "none", nil)
    /\ UNCHANGED << sessVars, lastSend, stmtVars, fetchVars, readVars, QueryTimeout, SuppressError,
                    crashed, dataErr, respErr, rcv, dataIn, dataOpen, seIter, seResult, bytesWritten, wr >>

\* err = <-respErr after the data write succeeded
SE_WaitResp ==
    /\ ~crashed
    /\ sePc = "waitResp"
    /\ respErr[seIter] # << >>
    /\ respErr' = [respErr EXCEPT ![seIter] = Tail(@)]
    /\ attemptReturns(seIter, Head(respErr[seIter]), "data", nil, "resp", Head(respErr[seIter]))
    /\ UNCHANGED << sessVars, lastSend, stmtVars, fetchVars, readVars, QueryTimeout, SuppressError,
                    crashed, dataErr, rcv, dataIn, dataOpen, seIter, seResult, bytesWritten, wr >>

\* err = <-dataErr after the control response succeeded
SE_WaitData ==
    /\ ~crashed
    /\ sePc = "waitData"
    /\ dataErr[seIter] # << >>
    /\ dataErr' = [dataErr EXCEPT ![seIter] = Tail(@)]
    /\ attemptReturns(seIter, Head(dataErr[seIter]), "resp", nil, "data", Head(dataErr[seIter]))
    /\ UNCHANGED << sessVars, lastSend, stmtVars, fetchVars, readVars, QueryTimeout, SuppressError,
                    crashed, respErr, rcv, dataIn, dataOpen, seIter, seResult, bytesWritten, wr >>

\* if retryableError(err) { if bytesWritten == 0 { continue } }
canRetry_AnyBytes(err, bw) == retryableError(err)

canRetry(err, bw) == retryableError(err) /\ bw = 0

\* The body of the loop of StreamExecute after the attempt has returned.
SE_Decide ==
    /\ ~crashed
    /\ sePc = "decide"
    /\ \E a \in { att[Len(att)] } :
         IF a.err = nil
         THEN seResult' = nil /\ sePc' = "returned"
         ELSE IF canRetry(a.err, a.bw)
         THEN IF seIter < StreamExecuteAttempts
              THEN sePc' = "loop" /\ seResult' = seResult
              ELSE seResult' = nil /\ sePc' = "returned"
         ELSE seResult' = a.err /\ sePc' = "returned"
    /\ UNCHANGED << sessVars, lastSend, stmtVars, fetchVars, readVars, attVars,
                    dataIn, dataOpen, seIter, bytesWritten, wr >>

StreamExecute ==
    \/ SE_Attempt \/ SE_SelectData \/ SE_SelectResp \/ SE_Timeout
    \/ SE_WaitResp \/ SE_WaitData \/ SE_Decide

\* StreamExecute(sql, data) has been called; `open` tells whether the caller
\* may still close the channel later or has closed it already.
InitWriteCall(open) ==
    /\ lastSend = NoSend
    /\ InitStmt
    /\ CachePrepStmts = FALSE
    /\ InitNoFetch
    /\ InitNoAtt
    /\ InitNoRead
    /\ QueryTimeout \in {0, 1}
    /\ dataIn \in Slices
    /\ dataOpen = open
    /\ sePc = "loop"
    /\ seIter = 0
    /\ seResult = nil
    /\ bytesWritten = [i \in Attempts |-> 0]
    /\ wr = [i \in Attempts |-> NoWriter]

InitWrite == InitWriteCall(FALSE)

NextWrite ==
    \/ StreamExecute
    \/ \E i \in 1..StreamExecuteAttempts : W_Headers(i) \/ W_Range(i) \/ Receive(i)

SpecWrite == InitWrite /\ [][NextWrite]_vars

(***************************************************************************)
(* The read path: StreamQuery, Rows.streamQuery, Rows.Close, Proxy.Read    *)
(***************************************************************************)
\* Chunks the server may stream, and the bodies made of them.
ChunkSet == { << "x" >>, << CR, LF >> }

Exports == UNION { [1..n -> ChunkSet] : n \in 0..MaxChunks }

\* Calls of Close on one stream handle.
MaxCloses == 2

\* What the server writes to the proxy socket for an export.
ServerStream(chunks) == RequestHeaders \o EncodeBody(chunks)

\* The stream cut after its first n bytes, the connection gone after them.
Broken(chunks, n) == [bytes |-> SubSeq(ServerStream(chunks), 1, n), eof |-> TRUE]

\* Every way a connection can end: after any number of bytes.
ByteStreams(chunks) ==
    { [bytes |-> ServerStream(chunks), eof |-> FALSE] }
    \cup { Broken(chunks, n) : n \in 0..(Len(ServerStream(chunks)) - 1) }

\* Where the connection of an attempt of StreamQuery is taken to break: at
\* once, inside the request headers, or after the headers and k whole chunks.
BreakPoints(chunks) ==
    {0, 1} \cup { Len(RequestHeaders) + Len(EncodeBody(SubSeq(chunks, 1, k))) - Len(LastChunk) :
                    k \in 0..Len(chunks) }

\* The socket of an attempt the server connected to.
Streams(chunks) ==
    { [bytes |-> ServerStream(chunks), eof |-> FALSE] }
    \cup { Broken(chunks, n) : n \in BreakPoints(chunks) }

\* The environment of one attempt of StreamQuery.  The retryable error says
\* that the server's connection to the proxy was refused and no byte was
\* transferred: it comes with a server that did not connect.
ExportEnv == { o \in AttemptEnv : o.w.Text = RetryableText => ~o.connect }

\* One turn of the loop of Proxy.Read up to its select: the chunk-size line,
\* the chunk, the line that ends it.
readChunk(s) ==
    IF readLine(s).st = "block" THEN [st |-> "block"]
    ELSE IF ParseHex(readLine(s).line) < 0
    THEN [st |-> "err", rest |-> readLine(s).rest,
          err |-> [kind |-> "Unable to parse chunkSize", text |-> "invalid syntax"]]
    ELSE IF Len(readLine(s).rest) < ParseHex(readLine(s).line)
    THEN IF s.eof
         THEN [st |-> "err", rest |-> << >>,
               err |-> [kind |-> "Unable to read from proxy(3)", text |-> "EOF"]]
         ELSE [st |-> "block"]
    ELSE Bind(readLine(s), LAMBDA l :
         Bind(ParseHex(l.line), LAMBDA n :
         Bind(readLine([s EXCEPT !.bytes = SubSeq(l.rest, n + 1, Len(l.rest))]), LAMBDA e :
            IF e.st = "block" THEN [st |-> "block"]
            ELSE IF e.line # << >>
            THEN [st |-> "err", rest |-> e.rest,
                  err |-> [kind |-> "Unable to read from proxy(4)", text |-> ""]]
            ELSE [st |-> IF n = 0 THEN "last" ELSE "chunk",
                  chunk |-> SubSeq(l.rest, 1, n), rest |-> e.rest])))

\* Proxy.Read returns: r.BytesRead, err = r.proxy.Read(...); dataErr <- err
readerReturns(i, n, e) ==
    /\ BytesRead' = n
    /\ errVar' = [errVar EXCEPT ![i] = e]
    /\ dataErr' = [dataErr EXCEPT ![i] = Append(@, e)]

\* Proxy.Read up to its loop: readHeaders, then "100 Continue".
Read_Headers(i) ==
    /\ ~crashed
    /\ rd[i].pc = "readHeaders"
    /\ readHeaders(sock[i]).st = "ok"
    /\ sock' = [sock EXCEPT ![i].bytes = readHeaders(sock[i]).rest]
    /\ rd' = [rd EXCEPT ![i].pc = "chunk"]
    /\ replies' = [replies EXCEPT ![i] =
                      Append(@, [status |-> "100 Continue",
                                 after |-> IF readHeaders(sock[i]).blank
                                           THEN "blank line" ELSE "read error",
                                 written |-> ~sock[i].closed])]
    /\ UNCHANGED << sessVars, lastSend, stmtVars, rowVars, wire, misread, QueryTimeout, SuppressError,
                    crashed, proxy, dataErr, respErr, rcv, att, writeVars, export, sqIter,
                    gPc, errVar, rError, BytesRead, rProxy, Data, dataClosed, stop, closePc,
                    origCfg, closes, pub, gotData >>

\* The loop of Proxy.Read from its top to the select.
Read_Chunk(i) ==
    /\ ~crashed
    /\ rd[i].pc = "chunk"
    /\ \E c \in { readChunk(sock[i]) } :
         /\ c.st # "block"
         /\ sock' = [sock EXCEPT ![i].bytes = c.rest]
         /\ IF c.st = "err"
            THEN /\ readerReturns(i, rd[i].totalRead, c.err)
                 /\ rd' = [rd EXCEPT ![i].pc = "done"]
                 /\ replies' = replies
            ELSE IF c.st = "last"
            THEN /\ readerReturns(i, rd[i].totalRead, nil)
                 /\ rd' = [rd EXCEPT ![i].pc = "done"]
                 /\ replies' = [replies EXCEPT ![i] =
                                   Append(@, [status |-> "200 OK",
                                              after |-> "last chunk",
                                              written |-> ~sock[i].closed])]
            ELSE /\ rd' = [rd EXCEPT ![i] = [pc |-> "publish",
                                             totalRead |-> @.totalRead + Len(c.chunk),
                                             chunk |-> c.chunk]]
                 /\ UNCHANGED << BytesRead, errVar, dataErr, replies >>
    /\ UNCHANGED << sessVars, lastSend, stmtVars, rowVars, wire, misread, QueryTimeout, SuppressError,
                    crashed, proxy, respErr, rcv, att, writeVars, export, sqIter, gPc,
                    rError, rProxy, Data, dataClosed, stop, closePc, origCfg, closes, pub,
                    gotData >>

\* case <-stop: p.Shutdown() up to its test of p.IsRunning(); the flag is
\* read without synchronisation while the deferred Shutdown of
\* Rows.streamQuery may run.
Read_Stop(i) ==
    /\ ~crashed
    /\ rd[i].pc = "publish"
    /\ stop # << >>
    /\ stop' = Tail(stop)
    /\ IF proxy[i].running
       THEN /\ rd' = [rd EXCEPT ![i].pc = "shutdown"]
            /\ UNCHANGED << BytesRead, errVar, dataErr >>
       ELSE /\ readerReturns(i, rd[i].totalRead, nil)
            /\ rd' = [rd EXCEPT ![i] = [pc |-> "done", totalRead |-> @.totalRead,
                                        chunk |-> << >>]]
    /\ UNCHANGED << sessVars, lastSend, stmtVars, rowVars, wire, misread, QueryTimeout, SuppressError,
                    crashed, proxy, sock, respErr, rcv, att, writeVars, export, sqIter, gPc,
                    rError, rProxy, Data, dataClosed, closePc, origCfg, closes, pub,
                    gotData, replies >>

\* The rest of that Shutdown, then break DATA and return.
Read_Shutdown(i) ==
    /\ ~crashed
    /\ rd[i].pc = "shutdown"
    /\ proxy' = [proxy EXCEPT ![i] = closeConn(@)]
    /\ sock' = [sock EXCEPT ![i] = CloseSock(@)]
    /\ readerReturns(i, rd[i].totalRead, nil)
    /\ rd' = [rd EXCEPT ![i] = [pc |-> "done", totalRead |-> @.totalRead, chunk |-> << >>]]
    /\ UNCHANGED << sessVars, lastSend, stmtVars, rowVars, wire, misread, QueryTimeout, SuppressError,
                    crashed, respErr, rcv, att, writeVars, export, sqIter, gPc, rError,
                    rProxy, Data, dataClosed, stop, closePc, origCfg, closes, pub, gotData,
                    replies >>

\* case data <- chunk: a send on the closed channel panics.
Read_Publish(i) ==
    /\ ~crashed
    /\ rd[i].pc = "publish"
    /\ IF dataClosed > 0
       THEN crashed' = TRUE /\ UNCHANGED << Data, pub, rd >>
       ELSE /\ Len(Data) < DataCap
            /\ Data' = Append(Data, rd[i].chunk)
            /\ pub' = [pub EXCEPT ![i] = Append(@, rd[i].chunk)]
            /\ rd' = [rd EXCEPT ![i] = [pc |-> "chunk", totalRead |-> @.totalRead,
                                        chunk |-> << >>]]
            /\ crashed' = crashed
    /\ UNCHANGED << sessVars, lastSend, stmtVars, rowVars, wire, misread, QueryTimeout, SuppressError, proxy,
                    sock, dataErr, respErr, rcv, att, writeVars, export, sqIter, gPc,
                    errVar, rError, BytesRead, rProxy, dataClosed, stop, closePc, origCfg,
                    closes, gotData, replies >>

TimedOutQuery == [kind |-> "Timed out doing BulkQuery", text |-> ""]

\* What the select of the running attempt has received so far.
selected(i, first, firstErr, second, secondErr) ==
    [i |-> i, returned |-> FALSE, bw |-> 0, err |-> nil,
     first |-> first, firstErr |-> firstErr, second |-> second, secondErr |-> secondErr]

\* One turn of the loop of StreamQuery: Rows.streamQuery up to its select.
SQ_Attempt ==
    /\ ~crashed
    /\ gPc = "loop"
    /\ sqIter' = sqIter + 1
    /\ \E o \in ExportEnv :
       \E s \in IF o.connect THEN Streams(export) ELSE { [bytes |-> << >>, eof |-> FALSE] } :
         /\ initProxy(sqIter + 1, o, s)
         /\ IF initProxyErr(o) # nil
            THEN /\ att' = Append(att, [selected(sqIter + 1, "init", initProxyErr(o), "none", nil)
                                          EXCEPT !.returned = TRUE, !.err = initProxyErr(o)])
                 /\ gPc' = "decide"
                 /\ UNCHANGED << rd, rcv, rProxy >>
            ELSE /\ rProxy' = sqIter + 1
                 /\ rd' = [rd EXCEPT ![sqIter + 1].pc = "readHeaders"]
                 /\ rcv' = [rcv EXCEPT ![sqIter + 1] = "wait"]
                 /\ gPc' = "select"
                 /\ att' = att
    /\ UNCHANGED << sessVars, lastSend, stmtVars, rowVars, misread, QueryTimeout, SuppressError, crashed,
                    dataErr, respErr, writeVars, export, errVar, rError, BytesRead, Data,
                    dataClosed, stop, closePc, origCfg, closes, pub, gotData, replies >>

\* case err = <-dataErr
SQ_SelectData ==
    /\ ~crashed
    /\ gPc = "select"
    /\ dataErr[sqIter] # << >>
    /\ dataErr' = [dataErr EXCEPT ![sqIter] = Tail(@)]
    /\ errVar' = [errVar EXCEPT ![sqIter] = Head(dataErr[sqIter])]
    /\ att' = Append(att, selected(sqIter, "data", Head(dataErr[sqIter]), "none", nil))
    /\ gPc' = IF waitsForOther(Head(dataErr[sqIter])) THEN "waitResp" ELSE "return"
    /\ UNCHANGED << sessVars, lastSend, stmtVars, rowVars, wire, misread, QueryTimeout, SuppressError,
                    crashed, proxy, sock, respErr, rcv, writeVars, export, sqIter, rError,
                    BytesRead, rProxy, Data, dataClosed, stop, closePc, origCfg, closes, rd,
                    pub, gotData, replies >>

\* case err = <-respErr
SQ_SelectResp ==
    /\ ~crashed
    /\ gPc = "select"
    /\ respErr[sqIter] # << >>
    /\ respErr' = [respErr EXCEPT ![sqIter] = Tail(@)]
    /\ errVar' = [errVar EXCEPT ![sqIter] = Head(respErr[sqIter])]
    /\ att' = Append(att, selected(sqIter, "resp", Head(respErr[sqIter]), "none", nil))
    /\ gPc' = IF waitsForOther(Head(respErr[sqIter])) THEN "waitData" ELSE "return"
    /\ UNCHANGED << sessVars, lastSend, stmtVars, rowVars, wire, misread, QueryTimeout, SuppressError,
                    crashed, proxy, sock, dataErr, rcv, writeVars, export, sqIter, rError,
                    BytesRead, rProxy, Data, dataClosed, stop, closePc, origCfg, closes, rd,
                    pub, gotData, replies >>

\* case <-timeout
SQ_Timeout ==
    /\ ~crashed
    /\ gPc = "select"
    /\ QueryTimeout > 0
    /\ errVar' = [errVar EXCEPT ![sqIter] = TimedOutQuery]
    /\ att' = Append(att, selected(sqIter, "timeout", TimedOutQuery, "none", nil))
    /\ gPc' = "return"
    /\ UNCHANGED << sessVars, lastSend, stmtVars, rowVars, wire, misread, QueryTimeout, SuppressError,
                    crashed, proxy, sock, dataErr, respErr, rcv, writeVars, export, sqIter,
                    rError, BytesRead, rProxy, Data, dataClosed, stop, closePc, origCfg,
                    closes, rd, pub, gotData, replies >>

\* err = <-respErr after proxy.Read succeeded
SQ_WaitResp ==
    /\ ~crashed
    /\ gPc = "waitResp"
    /\ respErr[sqIter] # << >>
    /\ respErr' = [respErr EXCEPT ![sqIter] = Tail(@)]
    /\ errVar' = [errVar EXCEPT ![sqIter] = Head(respErr[sqIter])]
    /\ att' = [att EXCEPT ![Len(att)].second = "resp",
                          ![Len(att)].secondErr = Head(respErr[sqIter])]
    /\ gPc' = "return"
    /\ UNCHANGED << sessVars, lastSend, stmtVars, rowVars, wire, misread, QueryTimeout, SuppressError,
                    crashed, proxy, sock, dataErr, rcv, writeVars, export, sqIter, rError,
                    BytesRead, rProxy, Data, dataClosed, stop, closePc, origCfg, closes, rd,
                    pub, gotData, replies >>

\* err = <-dataErr after the control response succeeded
SQ_WaitData ==
    /\ ~crashed
    /\ gPc = "waitData"
    /\ dataErr[sqIter] # << >>
    /\ dataErr' = [dataErr EXCEPT ![sqIter] = Tail(@)]
    /\ errVar' = [errVar EXCEPT ![sqIter] = Head(dataErr[sqIter])]
    /\ att' = [att EXCEPT ![Len(att)].second = "data",
                          ![Len(att)].secondErr = Head(dataErr[sqIter])]
    /\ gPc' = "return"
    /\ UNCHANGED << sessVars, lastSend, stmtVars, rowVars, wire, misread, QueryTimeout, SuppressError,
                    crashed, proxy, sock, respErr, rcv, writeVars, export, sqIter, rError,
                    BytesRead, rProxy, Data, dataClosed, stop, closePc, origCfg, closes, rd,
                    pub, gotData, replies >>

\* return err, and the deferred r.proxy.Shutdown(): the value returned is
\* that of the variable err, which the goroutine of proxy.Read assigns too.
SQ_Return ==
    /\ ~crashed
    /\ gPc = "return"
    /\ att' = [att EXCEPT ![Len(att)].returned = TRUE, ![Len(att)].err = errVar[sqIter]]
    /\ proxy' = [proxy EXCEPT ![sqIter] = Shutdown(@)]
    /\ sock' = [sock EXCEPT ![sqIter] = CloseSock(@)]
    /\ gPc' = "decide"
    /\ UNCHANGED << sessVars, lastSend, stmtVars, rowVars, wire, misread, QueryTimeout, SuppressError,
                    crashed, dataErr, respErr, rcv, writeVars, export, sqIter, errVar,
                    rError, BytesRead, rProxy, Data, dataClosed, stop, closePc, origCfg,
                    closes, rd, pub, gotData, replies >>

\* What r.Error holds after an attempt returned err.
errorKept_Never(err) == nil

errorKept(err) == IF retryableError(err) THEN nil ELSE err

\* r.Error = r.streamQuery(...); if retryableError(r.Error) { r.Error = nil; continue }
SQ_Decide ==
    /\ ~crashed
    /\ gPc = "decide"
    /\ rError' = errorKept(att[Len(att)].err)
    /\ gPc' = IF retryableError(att[Len(att)].err) /\ sqIter < StreamQueryAttempts
              THEN "loop" ELSE "closing"
    /\ UNCHANGED << sessVars, lastSend, stmtVars, rowVars, wire, misread, attVars, writeVars, export, sqIter,
                    errVar, BytesRead, rProxy, Data, dataClosed, stop, closePc, origCfg,
                    closes, rd, pub, gotData, replies >>

\* The deferred close(r.Data); r.wg.Done()
SQ_Finish ==
    /\ ~crashed
    /\ gPc = "closing"
    /\ dataClosed' = dataClosed + 1
    /\ gPc' = "done"
    /\ UNCHANGED << sessVars, lastSend, stmtVars, rowVars, wire, misread, attVars, writeVars, export, sqIter,
                    errVar, rError, BytesRead, rProxy, Data, stop, closePc, origCfg, closes,
                    rd, pub, gotData, replies >>

StreamQuery ==
    \/ SQ_Attempt \/ SQ_SelectData \/ SQ_SelectResp \/ SQ_Timeout
    \/ SQ_WaitResp \/ SQ_WaitData \/ SQ_Return \/ SQ_Decide \/ SQ_Finish

\* The caller receives a chunk from Data (it is not inside Close).
ConsumeData ==
    /\ ~crashed
    /\ closePc = "idle"
    /\ Data # << >>
    /\ gotData' = Append(gotData, Head(Data))
    /\ Data' = Tail(Data)
    /\ UNCHANGED << sessVars, lastSend, stmtVars, rowVars, wire, misread, attVars, writeVars, export, sqIter,
                    gPc, errVar, rError, BytesRead, rProxy, dataClosed, stop, closePc,
                    origCfg, closes, rd, pub, replies >>

\* Rows.Close up to r.wg.Wait(): r.proxy.IsRunning() on a nil r.proxy is a
\* nil pointer dereference.
Close_Begin ==
    /\ ~crashed
    /\ closePc = "idle"
    /\ Len(closes) < MaxCloses
    /\ origCfg' = SuppressError
    /\ closes' = Append(closes, [finished |-> gPc = "done",
                                 fault |-> rProxy = 0,
                                 running |-> rProxy # 0 /\ proxy[rProxy].running,
                                 flag |-> SuppressError,
                                 returned |-> FALSE])
    /\ IF rProxy = 0
       THEN crashed' = TRUE /\ UNCHANGED << SuppressError, stop, closePc >>
       ELSE /\ crashed' = crashed
            /\ closePc' = "wait"
            /\ IF proxy[rProxy].running
               THEN /\ SuppressError' = TRUE
                    /\ stop' = IF Len(stop) < DataCap THEN Append(stop, TRUE) ELSE stop
               ELSE UNCHANGED << SuppressError, stop >>
    /\ UNCHANGED << sessVars, lastSend, stmtVars, rowVars, wire, misread, QueryTimeout, proxy, sock, dataErr,
                    respErr, rcv, att, writeVars, export, sqIter, gPc, errVar, rError,
                    BytesRead, rProxy, Data, dataClosed, rd, pub, gotData, replies >>

\* The value Close assigns to Conf.SuppressError before it returns.
restoredCfg_Current == SuppressError

restoredCfg == origCfg

\* r.wg.Wait() returns; the flag is restored.
Close_Return ==
    /\ ~crashed
    /\ closePc = "wait"
    /\ gPc = "done"
    /\ SuppressError' = restoredCfg
    /\ closes' = [closes EXCEPT ![Len(closes)].returned = TRUE]
    /\ closePc' = "idle"
    /\ UNCHANGED << sessVars, lastSend, stmtVars, rowVars, wire, misread, QueryTimeout, crashed, proxy, sock,
                    dataErr, respErr, rcv, att, writeVars, export, sqIter, gPc, errVar,
                    rError, BytesRead, rProxy, Data, dataClosed, stop, origCfg, rd, pub,
                    gotData, replies >>

Close == Close_Begin \/ Close_Return

\* StreamQuery(exportSQL) has returned the stream handle.
InitRead ==
    /\ lastSend = NoSend
    /\ InitStmt
    /\ CachePrepStmts = FALSE
    /\ InitNoFetch
    /\ InitNoAtt
    /\ InitNoWrite
    /\ InitNoRows
    /\ QueryTimeout \in {0, 1}
    /\ export \in { e \in Exports : \A k \in 1..Len(e) : e[k] = << "x" >> }
    /\ gPc = "loop"
    /\ closePc = "idle"

NextRead ==
    \/ StreamQuery
    \/ \E i \in Attempts :
         \/ Read_Headers(i) \/ Read_Chunk(i) \/ Read_Stop(i) \/ Read_Shutdown(i)
         \/ Read_Publish(i) \/ Receive(i)
    \/ ConsumeData
    \/ Close

SpecRead == InitRead /\ [][NextRead]_vars

(***************************************************************************)
(* The raw channel on its own: every request under every environment       *)
(***************************************************************************)
SendReq(cmd, w) ==
    /\ lastSend' = [cmd |-> cmd, w |-> w, res |-> send(w)]
    /\ UNCHANGED << sessVars, stmtVars, fetchVars, bulkVars >>

NextSend == \E cmd \in Commands, w \in WireEnv : SendReq(cmd, w)

SpecSend == InitSend /\ [][NextSend]_vars

\* C2: a send whose request could not be written returns the TransportSend
\* error without reading; a written request ends in exactly one of
\* ServerTerminatedStatement (read error matching 'abnormal closure'),
\* TransportRecv (any other read error), ServerError carrying exception.text
\* (status not ok), or success with the response decoded into out -- in
\* that order of precedence.
C2_SendOutcome ==
    lastSend.cmd # "none" =>
        LET w == lastSend.w
            r == lastSend.res
        IN  IF w.writeErr # "nil"
            THEN /\ r.err = [kind |-> "WebSocket API Error sending", text |-> w.writeErr]
                 /\ ~r.read
            ELSE /\ r.written /\ r.read
                 /\ IF w.readErr = "close 1006 (abnormal closure)"
                    THEN r.err = [kind |-> "Server terminated statement", text |-> ""]
                    ELSE IF w.readErr # "nil"
                    THEN r.err = [kind |-> "WebSocket API Error recving", text |-> w.readErr]
                    ELSE IF w.Status # "ok"
                    THEN r.err = [kind |-> "Server Error", text |-> w.Text] /\ r.decoded
                    ELSE r.err = nil /\ r.decoded

\* A read that fails with an abnormal closure while the (undecoded) status
\* is not "ok": the read error takes precedence.
C2_Witness ==
    /\ lastSend.cmd = "execute"
    /\ lastSend.w.writeErr = "nil"
    /\ lastSend.w.readErr = "close 1006 (abnormal closure)"
    /\ lastSend.w.Status = ""
    /\ lastSend.res.err.kind = "Server terminated statement"

(***************************************************************************)
(* Properties of the prepared-statement engine                             *)
(***************************************************************************)
\* Number of requests with command cmd (and handle sth, unless sth = 0)
\* among those of the most recent call.
CountSent(cmd, sth) ==
    Cardinality({ k \in 1..Len(sent) :
                    sent[k].cmd = cmd /\ (sth = 0 \/ sent[k].sth = sth) })

Issued == 1..(srvNextSth - 1)

\* C3: closePreparedStatement is sent at most once for each handle the
\* server issued, and once Disconnect has returned it has been sent exactly
\* once for every handle that was created.
C3_ClosedExactlyOnce ==
    /\ \A h \in Issued : closeCount[h] <= 1
    /\ ~wsOpen => \A h \in Issued : closeCount[h] = 1

C5_CacheHitMiss ==
    CachePrepStmts =>
      /\ Stats.StmtCacheMiss = Cardinality(Issued)
      /\ lastCall.op = "Execute" =>
           /\ CountSent("createPreparedStatement", 0) =
                (IF lastCall.hit THEN 0 ELSE 1)
                + (IF lastCall.retry # "none" THEN 1 ELSE 0)
           /\ ~lastCall.hit =>
                sent[1] = Req("createPreparedStatement", 0, lastCall.sql)
           /\ (lastCall.hit /\ lastCall.retry = "none") =>
                /\ Stats = lastCall.statsBefore
                /\ lastCall.created = {}
                /\ DOMAIN prepStmtCache = DOMAIN lastCall.before
                /\ \A t \in DOMAIN prepStmtCache :
                     /\ prepStmtCache[t].sth = lastCall.before[t].sth
                     /\ t # lastCall.sql =>
                          prepStmtCache[t].lastUsed = lastCall.before[t].lastUsed
                /\ prepStmtCache[lastCall.sql].lastUsed = now
                /\ prepStmtCache[lastCall.sql].lastUsed
                     > lastCall.before[lastCall.sql].lastUsed
           /\ (calls = 1 /\ lastCall.firstErr = nil) =>
                Stats = [StmtCacheLen |-> 1, StmtCacheMiss |-> 1]
           /\ (calls = 2 /\ lastCall.hit /\ lastCall.firstErr = nil
                 /\ lastCall.statsBefore = [StmtCacheLen |-> 1, StmtCacheMiss |-> 1]) =>
                Stats = [StmtCacheLen |-> 1, StmtCacheMiss |-> 1]

\* The same SQL executed a second time with caching enabled: a hit.
C5_Witness ==
    /\ CachePrepStmts
    /\ calls = 2
    /\ lastCall.op = "Execute"
    /\ lastCall.hit
    /\ lastCall.err = nil
    /\ Stats = [StmtCacheLen |-> 1, StmtCacheMiss |-> 1]

\* C6: with caching disabled the cache holds no entry and StmtCacheLen and
\* StmtCacheMiss are both 0.
C6_NoCacheWhenDisabled ==
    ~CachePrepStmts =>
      /\ DOMAIN prepStmtCache = {}
      /\ Stats = [StmtCacheLen |-> 0, StmtCacheMiss |-> 0]

\* C7: with caching disabled, when a prepared execute returns after a
\* successful (possibly retried) execute, closePreparedStatement has been
\* sent for the handle the last executePreparedStatement used and for every
\* other handle the call created.
C7_ClosedAfterExecute ==
    ( /\ ~CachePrepStmts
      /\ lastCall.op = "Execute"
      /\ lastCall.firstErr = nil \/ lastCall.retry = "ok" ) =>
        /\ closeCount[lastCall.execSths[Len(lastCall.execSths)]] >= 1
        /\ \A h \in lastCall.created : closeCount[h] >= 1

\* C8: after 'Statement handle not found' the cache entry is evicted, the
\* statement is re-prepared and the execute retried exactly once with the
\* new handle; a successful retry makes Execute return the retried result's
\* row count and no error, a failed retry makes it return the retry's error.
C8_StaleHandleRetry ==
    (lastCall.op = "Execute" /\ lastCall.retry \in {"ok", "failed"}) =>
        /\ CountSent("executePreparedStatement", 0) = 2
        /\ CountSent("createPreparedStatement", 0) = (IF lastCall.hit THEN 1 ELSE 2)
        /\ lastCall.execSths[2] \in lastCall.created
        /\ lastCall.execSths[2] # lastCall.execSths[1]
        /\ lastCall.retry = "ok" =>
             lastCall.err = nil /\ lastCall.rows = lastCall.retryRows
        /\ lastCall.retry = "failed" => lastCall.err = lastCall.retryErr

(***************************************************************************)
(* Properties of the result-set producer                                    *)
(***************************************************************************)
IsPrefix(a, b) == Len(a) <= Len(b) /\ \A k \in 1..Len(a) : a[k] = b[k]

\* Rows put on the channel so far, in order.
Delivered == got \o ch

\* C1: command/response pairs are serialized: no request is written while
\* another request's response is still unread, and every response is read
\* by the task that sent the matching request.
C1_Serialized == Len(wire) <= 1 /\ ~misread

\* C9: for a result set with numRows > 0 the rows put on the channel are
\* the server's rows in order, each once, and when the channel is closed
\* they are exactly the numRows rows -- inline or paged, however the server
\* splits the rows, with or without an initial data block.
C9_AllRowsOnce ==
    rs.NumRows > 0 =>
        /\ IsPrefix(Delivered, AllRows(rs.NumRows))
        /\ chClosed => Delivered = AllRows(rs.NumRows)

\* A paged result with an initial data block, fetched in more than one
\* chunk and drained by the consumer.
C9_Witness ==
    /\ rs.ResultSetHandle > 0
    /\ rs.Data # << >>
    /\ rs.NumRows = MaxRows
    /\ Len(fetchLog) >= 2
    /\ chClosed
    /\ got = AllRows(MaxRows)

\* C10: for a result set with a handle closeResultSet is sent at most once,
\* only after the response to the last fetch (all rows consumed and put on
\* the channel), and it has been sent when the channel is closed; it is
\* never sent for an inline result.
C10_CloseResultSetOnce ==
    /\ rs.ResultSetHandle = 0 => closeRSCount = 0
    /\ rs.ResultSetHandle > 0 =>
         /\ closeRSCount <= 1
         /\ closeRSCount = 1 =>
              /\ fi >= rs.NumRows
              /\ ppc \in {"closeRecv", "close", "done"}
              /\ Delivered = AllRows(rs.NumRows)
         /\ chClosed => closeRSCount = 1

\* A paged result whose channel was closed after closeResultSet.
C10_Witness ==
    /\ rs.ResultSetHandle > 0
    /\ Len(fetchLog) >= 2
    /\ chClosed
    /\ closeRSCount = 1

\* C11: when a fetch fails inside the producer (the request cannot be
\* written, or its response is an error) the failure ends the row sequence:
\* the producer has closed the channel once it has stopped on the failure.
C11_FetchFailureClosesChannel == ppc = "panic(err)" => chClosed

(***************************************************************************)
(* Properties of the bulk calls                                            *)
(***************************************************************************)
\* C12: StreamExecute makes at most two attempts; it makes the second one
\* exactly when the first failed with a retryable error and bytesWritten ==
\* 0.  A retryable failure with bytesWritten == 0 followed by a successful
\* second attempt yields nil; a retryable failure with bytesWritten > 0 (and
\* any non-retryable failure) is returned without a second attempt.
C12_RetryPolicy ==
    /\ seIter <= StreamExecuteAttempts
    /\ Len(att) <= StreamExecuteAttempts
    /\ (sePc # "none" /\ seIter = 2) => (retryableError(att[1].err) /\ att[1].bw = 0)
    /\ sePc = "returned" =>
         /\ (retryableError(att[1].err) /\ att[1].bw = 0) => Len(att) = 2
         /\ (Len(att) = 2 /\ att[2].err = nil) => seResult = nil
         /\ (retryableError(att[1].err) /\ att[1].bw > 0) =>
                (Len(att) = 1 /\ seResult = att[1].err /\ seResult # nil)
         /\ Len(att) = 1 => seResult = att[1].err

\* A retryable failure before any byte was written, then a successful
\* second attempt: the call succeeds.
C12_Witness ==
    /\ sePc = "returned"
    /\ Len(att) = 2
    /\ retryableError(att[1].err)
    /\ att[1].bw = 0
    /\ att[2].err = nil
    /\ att[2].bw > 0
    /\ seResult = nil

\* C14: a write attempt in which the timeout did not fire succeeds exactly
\* when both the data write and the control response succeeded: if the task
\* whose completion is received first failed, its error is the outcome and
\* the other task is not waited for; if it succeeded, the attempt waits for
\* the other task and adopts its error.
C14_WriteAttemptOutcome ==
    sePc # "none" =>
      \A k \in 1..Len(att) :
        att[k].first \in {"data", "resp"} =>
          /\ att[k].err = nil <=>
                (att[k].firstErr = nil /\ att[k].second # "none" /\ att[k].secondErr = nil)
          /\ att[k].err = nil => (wr[att[k].i].pc = "done" /\ rcv[att[k].i] = "done")
          /\ att[k].firstErr # nil =>
                (att[k].second = "none" /\ att[k].err = wrapErr(att[k].firstErr))
          /\ att[k].firstErr = nil =>
                /\ att[k].second = (IF att[k].first = "data" THEN "resp" ELSE "data")
                /\ att[k].err = (IF att[k].secondErr = nil THEN nil
                                 ELSE wrapErr(att[k].secondErr))

\* The data write completed first and succeeded; the control response then
\* failed and its error became the outcome.
C14_Witness ==
    /\ sePc = "returned"
    /\ Len(att) = 1
    /\ att[1].first = "data"
    /\ att[1].firstErr = nil
    /\ att[1].bw > 0
    /\ att[1].second = "resp"
    /\ att[1].secondErr.kind = "Server Error"
    /\ seResult = wrapErr(att[1].secondErr)

\* C13: a bulk call reports success only if one of its attempts succeeded:
\* StreamExecute returns nil only when some attempt returned without error,
\* and once the export's goroutine has closed Data, Rows.Error is nil only
\* when some attempt returned without error.
C13_SuccessNeedsSuccessfulAttempt ==
    /\ (sePc = "returned" /\ seResult = nil) =>
           \E k \in 1..Len(att) : att[k].err = nil
    /\ (gPc = "done" /\ dataClosed > 0 /\ rError = nil) =>
           \E k \in 1..Len(att) : att[k].returned /\ att[k].err = nil

\* C15: a read attempt (Rows.streamQuery) that got as far as its select
\* returns nil only if proxy.Read and the control response both completed
\* without error, and after an error of the control response, or the
\* timeout, the attempt returns an error: a later success of proxy.Read
\* never replaces it.
C15_ReadAttemptOutcome ==
    gPc # "none" =>
      \A k \in 1..Len(att) :
        (att[k].returned /\ att[k].first \in {"data", "resp", "timeout"}) =>
          /\ att[k].err = nil =>
                (att[k].firstErr = nil /\ att[k].second # "none" /\ att[k].secondErr = nil)
          /\ ( \/ att[k].first = "resp" /\ att[k].firstErr # nil
               \/ att[k].second = "resp" /\ att[k].secondErr # nil
               \/ att[k].first = "timeout" ) => att[k].err # nil

\* C16: when Close was called (past its first statement) while the
\* background goroutine of StreamQuery was still running, the process does
\* not fault, the call is never stuck (while it waits and no proxy.Read is
\* waiting for bytes of the server, some step of the program can be
\* taken), and once it has returned, Data is closed and no
\* task started by StreamQuery (the background goroutine, proxy.Read, the
\* receiver of the control response) is still running.
\* proxy.Read is inside conn.Read and the server has sent nothing to read.
blockedInRead(i) ==
    /\ rd[i].pc \in {"readHeaders", "chunk"}
    /\ ~ENABLED (Read_Headers(i) \/ Read_Chunk(i))

C16_CloseStopsReader ==
    \A k \in 1..Len(closes) :
      (~closes[k].finished /\ ~closes[k].fault) =>
        /\ ~crashed
        /\ ( /\ k = Len(closes)
             /\ closePc = "wait"
             /\ \A i \in Attempts : ~blockedInRead(i) ) => ENABLED NextRead
        /\ closes[k].returned =>
             /\ dataClosed = 1
             /\ gPc = "done"
             /\ \A i \in Attempts : rd[i].pc \in {"none", "done"} /\ rcv[i] \in {"none", "done"}

\* C17: no call of Close faults, whatever state the stream handle is in, and
\* a call that waits returns once the retry goroutine has finished.
C17_CloseSafe ==
    /\ \A k \in 1..Len(closes) : ~closes[k].fault
    /\ (closePc = "wait" /\ gPc = "done" /\ ~crashed) => ENABLED Close_Return

\* The export SQL of attempt k was rejected: the server answered the
\* statement with an error without ever connecting to the proxy.
Rejected(k) ==
    /\ att[k].returned
    /\ att[k].first = "resp"
    /\ att[k].firstErr.kind = "Server Error"
    /\ ~retryableError(att[k].firstErr)
    /\ ~sock[att[k].i].connected

\* C18: Data is closed at most once, and only by the background goroutine
\* after it stored the final value of Rows.Error; once Data is closed,
\* Rows.Error does not change, no chunk is published any more and Data is not
\* closed again; Rows.Error is then the error of the last attempt (nil if
\* retryable). When the SQL of the last attempt was rejected, no chunk was
\* delivered, Rows.Error is not nil and BytesRead is 0.
C18_ClosedStore ==
    /\ dataClosed <= 1
    /\ dataClosed = 1 =>
         /\ gPc = "done"
         /\ att # << >>
         /\ rError = IF retryableError(att[Len(att)].err) THEN nil ELSE att[Len(att)].err
         /\ Rejected(Len(att)) =>
              /\ rError # nil
              /\ BytesRead = 0
              /\ Data = << >> /\ gotData = << >>
              /\ \A i \in Attempts : pub[i] = << >>

InitProxyRead ==
    /\ lastSend = NoSend
    /\ InitStmt
    /\ CachePrepStmts = FALSE
    /\ InitNoFetch
    /\ InitNoWrite
    /\ QueryTimeout = 0
    /\ SuppressError = FALSE
    /\ crashed = FALSE
    /\ export \in Exports
    /\ \E s \in ByteStreams(export) :
         sock = [i \in Attempts |->
                   IF i = 1 THEN [bytes |-> s.bytes, eof |-> s.eof, closed |-> FALSE,
                                  connected |-> TRUE]
                   ELSE NoSock]
    /\ proxy = [i \in Attempts |->
                  IF i = 1 THEN [opened |-> TRUE, running |-> TRUE, closes |-> 0] ELSE NoProxy]
    /\ dataErr = [i \in Attempts |-> << >>]
    /\ respErr = [i \in Attempts |-> IF i = 1 THEN << nil >> ELSE << >>]
    /\ rcv = [i \in Attempts |-> IF i = 1 THEN "done" ELSE "none"]
    /\ att = << >>
    /\ sqIter = 1
    /\ errVar = [i \in Attempts |-> nil]
    /\ rError = nil
    /\ BytesRead = 0
    /\ rProxy = 1
    /\ Data = << >>
    /\ dataClosed = 0
    /\ stop = << >>
    /\ origCfg = FALSE
    /\ closes = << >>
    /\ rd = [i \in Attempts |-> IF i = 1 THEN [NoReader EXCEPT !.pc = "readHeaders"] ELSE NoReader]
    /\ pub = [i \in Attempts |-> << >>]
    /\ gotData = << >>
    /\ replies = [i \in Attempts |-> << >>]
    /\ gPc = "select"
    /\ closePc = "idle"

NextProxyRead ==
    \/ Read_Headers(1)
    \/ Read_Chunk(1)
    \/ Read_Stop(1)
    \/ Read_Shutdown(1)
    \/ Read_Publish(1)
    \/ ConsumeData
    \/ Close_Begin

SpecProxyRead == InitProxyRead /\ [][NextProxyRead]_vars

\* C19: Proxy.Read writes "100 Continue" only after it read the blank line
\* that ends the request headers; the chunks it published are the first
\* chunks of the body, in order, each once; it writes "200 OK" only after the
\* zero-length chunk, when every chunk of the body has been published (and
\* nothing else).
C19_ReadFraming ==
    \A i \in Attempts :
      /\ IsPrefix(pub[i], export)
      /\ \A k \in 1..Len(replies[i]) :
           /\ replies[i][k].status = "100 Continue" => replies[i][k].after = "blank line"
           /\ replies[i][k].status = "200 OK" =>
                 (replies[i][k].after = "last chunk" /\ pub[i] = export)

\* The bytes in a sequence of chunks
RECURSIVE byteCount(_)
byteCount(chunks) ==
    IF chunks = << >> THEN 0 ELSE Len(Head(chunks)) + byteCount(Tail(chunks))

\* C20: whenever Proxy.Read has returned, the count it returned, which is
\* stored in Rows.BytesRead, is the total length of the chunks it published
\* on Data.
C20_BytesReadIsPublished ==
    \A i \in Attempts :
      rd[i].pc = "done" =>
        /\ rd[i].totalRead = byteCount(pub[i])
        /\ i = sqIter => BytesRead = byteCount(pub[i])

(***************************************************************************)
(* Proxy.Write on its own: one attempt of an import, byte by byte           *)
(***************************************************************************)
\* What the caller may have buffered in the input channel before closing it.
WriteInputs == UNION { [1..n -> ChunkSet \cup { << >> }] : n \in 0..(MaxSlices + 1) }

\* The attempt's proxy is open, the server has answered the statement and
\* sends its request headers (or the connection ends inside them);
\* proxy.Write is about to read them.
InitProxyWrite ==
    /\ lastSend = NoSend
    /\ InitStmt
    /\ CachePrepStmts = FALSE
    /\ InitNoFetch
    /\ InitNoRead
    /\ QueryTimeout = 0
    /\ SuppressError = FALSE
    /\ crashed = FALSE
    /\ dataIn \in WriteInputs
    /\ dataOpen = FALSE
    /\ \E n \in 0..Len(RequestHeaders) :
         sock = [i \in Attempts |->
                   IF i = 1 THEN [bytes |-> SubSeq(RequestHeaders, 1, n),
                                  eof |-> n < Len(RequestHeaders),
                                  closed |-> FALSE, connected |-> TRUE]
                   ELSE NoSock]
    /\ proxy = [i \in Attempts |->
                  IF i = 1 THEN [opened |-> TRUE, running |-> TRUE, closes |-> 0] ELSE NoProxy]
    /\ dataErr = [i \in Attempts |-> << >>]
    /\ respErr = [i \in Attempts |-> IF i = 1 THEN << nil >> ELSE << >>]
    /\ rcv = [i \in Attempts |-> IF i = 1 THEN "done" ELSE "none"]
    /\ att = << >>
    /\ sePc = "select"
    /\ seIter = 1
    /\ seResult = nil
    /\ bytesWritten = [i \in Attempts |-> 0]
    /\ wr = [i \in Attempts |-> IF i = 1 THEN [NoWriter EXCEPT !.pc = "readHeaders"] ELSE NoWriter]

NextProxyWrite == W_Headers(1) \/ W_Range(1)

SpecProxyWrite == InitProxyWrite /\ [][NextProxyWrite]_vars

\* The content of a sequence of slices
RECURSIVE Concat(_)
Concat(slices) == IF slices = << >> THEN << >> ELSE Head(slices) \o Concat(Tail(slices))

\* A chunked body decoded the way Proxy.Read reads one: chunk after chunk up
\* to the first zero-length chunk; rest is what follows that chunk.
RECURSIVE Decode(_, _)
Decode(bytes, content) ==
    Bind(readChunk([bytes |-> bytes, eof |-> TRUE, closed |-> FALSE]), LAMBDA c :
      IF c.st = "chunk" THEN Decode(c.rest, content \o c.chunk)
      ELSE IF c.st = "last" THEN [ok |-> TRUE, content |-> content, rest |-> c.rest]
      ELSE [ok |-> FALSE, content |-> content, rest |-> << >>])

\* What Proxy.Write sent after its response headers
BodySent(i) == SubSeq(wr[i].out, Len(sendHeaders(WriteReply)) + 1, Len(wr[i].out))

\* C21: when Proxy.Write has returned without error, it has taken every
\* slice of the input channel, it sent the response headers and then a
\* chunked body that ends with its only zero-length chunk and decodes to the
\* concatenation of the slices, and bytesWritten is their total length.
C21_WriteFraming ==
    \A i \in Attempts :
      (wr[i].pc = "done" /\ dataErr[i] = << nil >>) =>
        /\ dataIn = << >>
        /\ SubSeq(wr[i].out, 1, Len(sendHeaders(WriteReply))) = sendHeaders(WriteReply)
        /\ Decode(BodySent(i), << >>).ok
        /\ Decode(BodySent(i), << >>).rest = << >>
        /\ Decode(BodySent(i), << >>).content = Concat(wr[i].taken)
        /\ wr[i].bw = Len(Concat(wr[i].taken))
        /\ bytesWritten[i] = wr[i].bw

\* The SQL of write attempt k was rejected: the server answered the
\* statement with an error that is not retryable and never connected to the
\* proxy.
RejectedWrite(k) ==
    /\ att[k].first = "resp"
    /\ att[k].firstErr.kind = "Server Error"
    /\ ~retryableError(att[k].firstErr)
    /\ ~sock[att[k].i].connected

\* C22: a write attempt that failed with bytesWritten = 0 had taken no slice
\* from the input channel when it returned; StreamExecute starts a second
\* attempt only if the first took none; the writer of an attempt that has
\* returned takes no slice afterwards; after an attempt whose SQL was
\* rejected, no slice has been taken from the channel.
C22_ChannelConsumption ==
    sePc # "none" =>
      /\ \A k \in 1..Len(att) :
           /\ (att[k].err # nil /\ att[k].bw = 0) => att[k].taken = 0
           /\ Len(wr[att[k].i].taken) = att[k].taken
           /\ (RejectedWrite(k) /\ k = 1) => \A i \in Attempts : wr[i].taken = << >>
      /\ seIter = 2 => wr[1].taken = << >>

\* C23: the proxy of every attempt of StreamQuery that has returned is not
\* running and its socket is closed; the socket of a proxy is closed at most
\* once; at most one proxy is running at any time.
C23_ProxyShutDown ==
    gPc # "none" =>
      /\ \A k \in 1..Len(att) :
           (att[k].returned /\ proxy[att[k].i].opened) =>
              (~proxy[att[k].i].running /\ sock[att[k].i].closed)
      /\ \A i \in Attempts : proxy[i].closes <= 1
      /\ Cardinality({ i \in Attempts : proxy[i].running }) <= 1

\* C24: an attempt of StreamQuery is ended by the timeout only when
\* QueryTimeout > 0, and an attempt ended by the timeout returns the error
\* "Timed out doing BulkQuery".
C24_OptionalTimeout ==
    gPc # "none" =>
      \A k \in 1..Len(att) :
        att[k].first = "timeout" =>
          /\ QueryTimeout > 0
          /\ att[k].returned => att[k].err = TimedOutQuery

(***************************************************************************)
(* Connect, login and the session attributes: client.go                    *)
(***************************************************************************)
\* fmt.Errorf / c.errorf with a prefix and the wrapped error
errorf(prefix, e) == [kind |-> prefix \o ": " \o e.kind, text |-> e.text]

\* What the network, the server and its public key do with one Connect.
ConnectEnv ==
    [ dial : BOOLEAN, loginW : Wire, key : {"ok", "message too long for RSA key size"},
      authW : Wire, auth : AuthData ]

\* login with Conf.QueryTimeout = t: the login request, the password
\* encryption, the authentication request carrying the attributes.
login(o, t) ==
    Bind(send(o.loginW), LAMBDA r1 :
      IF r1.err # nil
      THEN [err |-> r1.err, msgs |-> << [cmd |-> "login", err |-> r1.err] >>,
            block |-> NoBlock]
      ELSE IF o.key # "ok"
      THEN [err |-> [kind |-> "Password encryption error", text |-> o.key],
            msgs |-> << [cmd |-> "login", err |-> nil] >>, block |-> NoBlock]
      ELSE Bind(send(o.authW), LAMBDA r2 :
             [err |-> IF r2.err # nil THEN errorf("Unable to authenticate", r2.err) ELSE nil,
              msgs |-> << [cmd |-> "login", err |-> nil],
                          [cmd |-> "authenticate", err |-> r2.err] >>,
              block |-> Marshal(authAttributes(t))]))

\* The error Connect returns when wsConnect failed.
connectFailed(e) == errorf("Unable to connect to Exasol", e)

\* The error Connect returns when login failed.
loginFailed_AsConnect(e) == errorf("Unable to connect to Exasol", e)

loginFailed(e) == errorf("Unable to login to Exasol", e)

DialError == [kind |-> "dial tcp", text |-> "connection refused"]

\* Connect: dial, log in, return the session or the error.  The websocket
\* stays as wsConnect left it when login fails.
Connect(o) ==
    /\ ~crashed
    /\ session.state = "none"
    /\ IF ~o.dial
       THEN /\ session' = [NoSession EXCEPT !.state = "failed",
                                           !.err = connectFailed(DialError)]
            /\ UNCHANGED << transport, wsOpen, srvAuth, srvAttr, lastAttr >>
       ELSE \E r \in { login(o, QueryTimeout) } :
            /\ transport' = "open"
            /\ lastAttr' = IF Len(r.msgs) = 2
                           THEN [op |-> "login", arg |-> QueryTimeout, req |-> r.block,
                                 err |-> r.err]
                           ELSE lastAttr
            /\ IF r.err # nil
               THEN /\ session' = [NoSession EXCEPT !.state = "failed",
                                                   !.err = loginFailed(r.err),
                                                   !.msgs = r.msgs]
                    /\ UNCHANGED << wsOpen, srvAuth, srvAttr >>
               ELSE /\ session' = [state |-> "connected", SessionID |-> o.auth.SessionID,
                                   Metadata |-> o.auth, err |-> nil, msgs |-> r.msgs]
                    /\ wsOpen' = TRUE
                    /\ srvAuth' = o.auth
                    /\ srvAttr' = ServerApply(srvAttr, r.block)
    /\ UNCHANGED << extraVars, cliAttr, lastSend, CachePrepStmts, prepStmtCache, Stats, now, srvNextSth,
                    srvOpen, closeCount, sent, lastCall, calls, fetchVars, bulkVars >>

\* Whether the server executed a request: it did if it answered ok, it did
\* not if it never got the request or answered with an error; when the
\* answer was lost either is possible.
Executed(w, r) ==
    { a \in BOOLEAN : /\ r.err = nil => a
                      /\ (~r.written \/ w.Status = "error") => ~a }

\* One request with the attributes `block` on an open session, and what the
\* server does with it.  With c.ws == nil the send dereferences it.
attrCall(op, arg, block, prefix, w) ==
    /\ ~crashed
    /\ session.state = "connected"
    /\ IF wsOpen
       THEN \E r \in { send(w) } : \E a \in Executed(w, r) :
            /\ srvAttr' = IF a THEN ServerApply(srvAttr, block) ELSE srvAttr
            /\ lastAttr' = [op |-> op, arg |-> arg, req |-> block,
                            err |-> IF r.err = nil THEN nil
                                    ELSE IF prefix = "" THEN r.err
                                    ELSE errorf(prefix, r.err)]
            /\ cliAttr' = IF op = "GetSessionAttr" /\ r.err = nil
                          THEN Unmarshal(srvAttr) ELSE ZeroAttr
            /\ crashed' = crashed
       ELSE /\ crashed' = TRUE
            /\ UNCHANGED << srvAttr, lastAttr, cliAttr >>
    /\ UNCHANGED << extraVars, lastSend, transport, session, srvAuth, stmtVars, fetchVars, QueryTimeout,
                    SuppressError, proxy, sock, dataErr, respErr, rcv, att, writeVars,
                    readVars >>

\* The attributes block of DisableAutoCommit: a map built by hand, not the
\* Attributes struct.
DisableBlock_Struct == Marshal([ZeroAttr EXCEPT !.autocommit = FALSE])

DisableBlock == [k \in {"autocommit"} |-> FALSE]

EnableAutoCommit(w) ==
    attrCall("EnableAutoCommit", 0,
             Marshal([ZeroAttr EXCEPT !.autocommit = TRUE]),
             "Unable to enable autocommit", w)

DisableAutoCommit(w) ==
    attrCall("DisableAutoCommit", 0, DisableBlock,
             "Unable to disable autocommit", w)

SetTimeout(timeout, w) ==
    attrCall("SetTimeout", timeout,
             Marshal([ZeroAttr EXCEPT !.queryTimeout = timeout]),
             "Unable to set timeout", w)

GetSessionAttr(w) ==
    attrCall("GetSessionAttr", 0, NoBlock,
             "Unable to get session attributes", w)

Schemas == {"", "s"}

\* execute without binds, as Execute and FetchChan call it
execute(schema, w) ==
    attrCall("execute", 0,
             Marshal([ZeroAttr EXCEPT !.currentSchema = schema]), "", w)

\* A session not yet connected.
InitSession ==
    /\ InitExtra
    /\ lastSend = NoSend
    /\ CachePrepStmts = FALSE
    /\ wsOpen = FALSE
    /\ transport = "none"
    /\ session = NoSession
    /\ srvAuth = NoAuth
    /\ srvAttr \in { [ServerDefaults EXCEPT !.autocommit = b] : b \in BOOLEAN }
    /\ cliAttr = ZeroAttr
    /\ lastAttr = NoAttrCall
    /\ InitConn
    /\ InitNoFetch
    /\ QueryTimeout \in 0..MaxTimeout
    /\ InitNoAtt
    /\ InitNoWrite
    /\ InitNoRead

NextSession ==
    \/ \E o \in ConnectEnv : Connect(o)
    \/ \E w \in Wire : EnableAutoCommit(w)
    \/ \E w \in Wire : DisableAutoCommit(w)
    \/ \E t \in 0..MaxTimeout, w \in Wire : SetTimeout(t, w)
    \/ \E w \in Wire : GetSessionAttr(w)
    \/ \E s \in Schemas, w \in Wire : execute(s, w)
    \/ Disconnect

SpecSession == InitSession /\ [][NextSession]_vars

\* C25: the server's autocommit attribute is true after login, false after
\* a DisableAutoCommit that succeeded (whose request carries the literal
\* false) and true after an EnableAutoCommit that succeeded; it changes in
\* no other step: whenever it changes, the request of that step is a login,
\* EnableAutoCommit or DisableAutoCommit whose attributes block names the new
\* value, so it stays across execute, GetSessionAttr, SetTimeout and
\* Disconnect.
C25_AutocommitNow ==
    session.state = "connected" =>
      /\ lastAttr.op = "login" => srvAttr.autocommit = TRUE
      /\ (lastAttr.op = "EnableAutoCommit" /\ lastAttr.err = nil) =>
            srvAttr.autocommit = TRUE
      /\ (lastAttr.op = "DisableAutoCommit" /\ lastAttr.err = nil) =>
            /\ srvAttr.autocommit = FALSE
            /\ "autocommit" \in DOMAIN lastAttr.req
            /\ lastAttr.req["autocommit"] = FALSE

C25_Autocommit ==
    /\ []C25_AutocommitNow
    /\ [][srvAttr'.autocommit # srvAttr.autocommit =>
            /\ lastAttr'.op \in {"login", "EnableAutoCommit", "DisableAutoCommit"}
            /\ "autocommit" \in DOMAIN lastAttr'.req
            /\ lastAttr'.req["autocommit"] = srvAttr'.autocommit]_vars

\* Autocommit was disabled and another request with an attributes block has
\* succeeded since.
C25_Witness ==
    /\ session.state = "connected"
    /\ lastAttr.op \in {"execute", "SetTimeout"}
    /\ lastAttr.err = nil
    /\ srvAttr.autocommit = FALSE

\* C26: after login the server's queryTimeout is the configured
\* QueryTimeout; a SetTimeout(n) that succeeded sent queryTimeout = n, for
\* every n, and the server holds n; GetSessionAttr reports the server's value.
C26_QueryTimeout ==
    session.state = "connected" =>
      /\ lastAttr.op = "login" => srvAttr.queryTimeout = QueryTimeout
      /\ (lastAttr.op = "SetTimeout" /\ lastAttr.err = nil) =>
            /\ "queryTimeout" \in DOMAIN lastAttr.req
            /\ lastAttr.req["queryTimeout"] = lastAttr.arg
            /\ srvAttr.queryTimeout = lastAttr.arg
      /\ (lastAttr.op = "GetSessionAttr" /\ lastAttr.err = nil) =>
            cliAttr.queryTimeout = srvAttr.queryTimeout

\* C27: a Connect that failed leaves no open transport.
C27_FailedConnectClosesTransport ==
    session.state = "failed" => transport # "open"

\* The kinds of error send returns, and the kinds login returns.
SendErrKinds == { send(w).err.kind : w \in Wire } \ { nil.kind }

LoginErrKinds ==
    SendErrKinds \cup { "Password encryption error" }
      \cup { "Unable to authenticate: " \o k : k \in SendErrKinds }

C29_Disconnect ==
    lastCall.op = "Disconnect" =>
      /\ ~crashed
      /\ ~wsOpen
      /\ transport = "closed"
      /\ sent # << >>
      /\ sent[Len(sent)] = Req("disconnect", 0, 0)
      /\ \A q \in DOMAIN lastCall.before :
           \E k \in 1..(Len(sent) - 1) :
              sent[k] = Req("closePreparedStatement", lastCall.before[q].sth, 0)

(***************************************************************************)
(* Rows.Close and the SuppressError flag of the session                    *)
(***************************************************************************)
\* StreamQuery has returned the stream handle of a one-chunk export; the
\* caller has set Conf.SuppressError as it likes.
InitClose ==
    /\ lastSend = NoSend
    /\ InitStmt
    /\ CachePrepStmts = FALSE
    /\ InitNoFetch
    /\ SuppressError \in BOOLEAN
    /\ crashed = FALSE
    /\ proxy = [i \in Attempts |-> NoProxy]
    /\ sock = [i \in Attempts |-> NoSock]
    /\ dataErr = [i \in Attempts |-> << >>]
    /\ respErr = [i \in Attempts |-> << >>]
    /\ rcv = [i \in Attempts |-> "none"]
    /\ att = << >>
    /\ InitNoWrite
    /\ InitNoRows
    /\ QueryTimeout \in {0, 1}
    /\ export = << << "x" >> >>
    /\ gPc = "loop"
    /\ closePc = "idle"

SpecClose == InitClose /\ [][NextRead]_vars

\* C30: when a call of Close has returned, SuppressError is what it was
\* when that call began; the flag changes only when a call of Close that
\* found the proxy running raises it on its way to the wait, and when the
\* wait is over and Close puts the old value back.
C30_FlagNow ==
    /\ (closePc = "idle" /\ closes # << >> /\ closes[Len(closes)].returned) =>
          SuppressError = closes[Len(closes)].flag
    /\ (closes # << >> /\ SuppressError # closes[Len(closes)].flag) =>
          (closePc = "wait" /\ SuppressError = TRUE)
    /\ closes = << >> => closePc = "idle"

C30_SuppressErrorRestored ==
    /\ []C30_FlagNow
    /\ [][SuppressError' # SuppressError =>
            \/ closePc = "idle" /\ closePc' = "wait" /\ SuppressError' = TRUE
            \/ closePc = "wait" /\ closePc' = "idle"
                 /\ SuppressError' = closes[Len(closes)].flag]_vars

\* A call of Close that raised the flag has returned, and the flag is down.
C30_Witness ==
    /\ closePc = "idle"
    /\ closes # << >>
    /\ closes[Len(closes)].returned
    /\ closes[Len(closes)].running
    /\ ~closes[Len(closes)].flag
    /\ ~SuppressError

(***************************************************************************)
(* wsConnect over a host range: websocket.go                               *)
(***************************************************************************)
\* Largest last octet of the model.
MaxOctet == 3

\* Conf.Host: a plain name, or a.b.c.x..y as the regular expression splits it.
Hosts ==
    { NoDial.host } \cup
    { [range |-> TRUE, from |-> x, to |-> y] : x, y \in 0..MaxOctet }

\* Everything but the dial and the crash flag.
dialFrame ==
    << transport, session, srvAuth, srvAttr, cliAttr, lastAttr, lastSend, stmtVars,
       fetchVars, QueryTimeout, SuppressError, proxy, sock, dataErr, respErr, rcv, att,
       writeVars, readVars, lines >>

\* wsConnect up to the loop: the addresses x..y in the order rand.Shuffle
\* leaves them, or the plain host.
wsConnect_Begin ==
    /\ dial.pc = "start"
    /\ IF dial.host.range
       THEN \E o \in Orders(dial.host.from .. dial.host.to) :
               dial' = [dial EXCEPT !.ips = [k \in 1..Len(o) |-> IP(o[k])], !.pc = "loop"]
       ELSE dial' = [dial EXCEPT !.pc = "plain"]
    /\ UNCHANGED << crashed, dialFrame >>

\* One turn of `for _, ip := range ips`: wsConnectHost, break on success.
\* After the last address wsConnect returns err as the loop left it.
wsConnect_Loop ==
    /\ dial.pc = "loop"
    /\ IF dial.ips = << >>
       THEN dial' = [dial EXCEPT !.pc = "return"]
       ELSE \E ok \in BOOLEAN :
               dial' = [dial EXCEPT
                          !.tried = Append(@, [ip |-> Head(dial.ips), ok |-> ok]),
                          !.failed = ~ok,
                          !.ws = IF ok THEN << Head(dial.ips) >> ELSE @,
                          !.ips = IF ok THEN @ ELSE Tail(@),
                          !.pc = IF ok THEN "return" ELSE "loop"]
    /\ UNCHANGED << crashed, dialFrame >>

\* err = c.wsConnectHost(host)
wsConnect_Plain ==
    /\ dial.pc = "plain"
    /\ \E ok \in BOOLEAN :
          dial' = [dial EXCEPT !.tried = Append(@, [ip |-> PlainHost, ok |-> ok]),
                               !.failed = ~ok,
                               !.ws = IF ok THEN << PlainHost >> ELSE @,
                               !.pc = "return"]
    /\ UNCHANGED << crashed, dialFrame >>

\* Connect after wsConnect: the error, or login, whose first send uses c.ws.
Connect_AfterDial ==
    /\ dial.pc = "return"
    /\ IF dial.failed
       THEN dial' = [dial EXCEPT !.pc = "failed"] /\ crashed' = crashed
       ELSE dial' = [dial EXCEPT !.pc = "login"] /\ crashed' = (dial.ws = << >>)
    /\ UNCHANGED dialFrame

InitDial ==
    /\ dial \in { [NoDial EXCEPT !.pc = "start", !.host = h] : h \in Hosts }
    /\ lines = NoLines
    /\ lastSend = NoSend
    /\ CachePrepStmts = FALSE
    /\ wsOpen = FALSE
    /\ transport = "none"
    /\ session = NoSession
    /\ srvAuth = NoAuth
    /\ srvAttr = ServerDefaults
    /\ cliAttr = ZeroAttr
    /\ lastAttr = NoAttrCall
    /\ InitConn
    /\ InitNoFetch
    /\ InitNoBulk

NextDial == wsConnect_Begin \/ wsConnect_Loop \/ wsConnect_Plain \/ Connect_AfterDial

SpecDial == InitDial /\ [][NextDial]_vars

\* C31: for a range only the addresses x..y are tried, each at most once,
\* and nothing after the first success; wsConnect reports success exactly
\* when one attempt succeeded, so login runs on an established transport; a
\* plain host is tried exactly once, as given.
C31_HostRange ==
    /\ \A k \in 1..Len(dial.tried) :
         /\ dial.tried[k].ip \in
               (IF dial.host.range
                THEN { IP(n) : n \in dial.host.from .. dial.host.to }
                ELSE { PlainHost })
         /\ \A j \in 1..Len(dial.tried) : j # k => dial.tried[j].ip # dial.tried[k].ip
         /\ k < Len(dial.tried) => ~dial.tried[k].ok
    /\ dial.pc \in {"return", "failed", "login"} =>
         /\ ~dial.failed <=> \E k \in 1..Len(dial.tried) : dial.tried[k].ok
         /\ ~dial.host.range => Len(dial.tried) = 1
    /\ dial.pc = "login" => (dial.ws # << >> /\ ~crashed)

\* C32: the first fetch of a paged result asks for startPosition 0; the
\* position advances only when a fetch response is received, by the
\* numRows of that response, so every later fetch asks for the sum of the
\* numRows answered so far; a fetch is written only when no response is
\* outstanding and the position is below the result's NumRows.
C32_PositionNow ==
    /\ fetchLog # << >> => fetchLog[1] = 0
    /\ \A k \in 1..Len(fetchLog) : fetchLog[k] < rs.NumRows
    /\ \A k \in 1..(Len(fetchLog) - 1) : fetchLog[k] <= fetchLog[k + 1]
    /\ Len(wire) <= 1

C32_SequentialPaging ==
    /\ []C32_PositionNow
    /\ [][fetchLog' # fetchLog =>
            /\ fetchLog' = Append(fetchLog, fi)
            /\ wire = << >>
            /\ fi < rs.NumRows]_vars
    /\ [][fi' # fi =>
            /\ wire # << >>
            /\ Head(wire).cmd = "fetch"
            /\ fi' = fi + Head(wire).NumRows
            /\ wire' = Tail(wire)]_vars

\* A result was paged in more than one fetch, the last one not at 0, and
\* the producer has finished.
C32_Witness ==
    /\ ppc = "done"
    /\ Len(fetchLog) >= 2
    /\ fetchLog[Len(fetchLog)] >= 2

\* The producer and the consumer keep running while they can.
SpecFetchLive == SpecFetch /\ WF_vars(NextFetch)

\* C37: unless a request failed in the transport or was answered with an
\* error (the producer then panics with that error), the row channel is
\* eventually closed, whatever the result set and whatever the server puts
\* in its ok answers to fetch.
C37_ChannelClosed == <>(chClosed \/ ppc = "panic(err)")

\* C35: once StreamExecute has returned to its caller, no receiver of any
\* of its attempts is still waiting to read from the control channel.
C35_NoLeftoverReceiver ==
    sePc = "returned" => \A i \in Attempts : rcv[i] # "wait"

(***************************************************************************)
(* StreamExecute with an input channel the caller has not closed           *)
(***************************************************************************)
\* The caller closes the input channel (when, and whether, is up to it).
CloseInput ==
    /\ dataOpen
    /\ dataOpen' = FALSE
    /\ UNCHANGED << sessVars, lastSend, stmtVars, fetchVars, readVars, attVars, dataIn, sePc,
                    seIter, seResult, bytesWritten, wr >>

NextWriteOpen == NextWrite \/ CloseInput

\* The goroutines of the call keep running while they can; the caller owes
\* nothing.
SpecWriteOpen == InitWriteCall(TRUE) /\ [][NextWriteOpen]_vars /\ WF_vars(NextWrite)

\* Attempt i has returned with the timeout error.
timedOut(i) == \E k \in 1..Len(att) : att[k].i = i /\ att[k].first = "timeout"

\* C33: after an attempt has returned with the timeout error, the task
\* that transfers its data terminates, wherever it was blocked.
C33_TransferTaskEnds ==
    \A i \in 1..StreamExecuteAttempts : timedOut(i) ~> (wr[i].pc = "done")

\* C34: once Data is closed no proxy.Read is at its send on Data (a reader
\* of an attempt that returned early has stopped before the close).
C34_NoSendOnClosedData ==
    dataClosed > 0 => \A i \in Attempts : rd[i].pc # "publish"

cached(cache) == [s \in DOMAIN cache |-> cache[s].sth]

\* C38: after every Execute that changed the cache (an insertion on a miss,
\* an eviction, a deletion after a stale handle) Stats["StmtCacheLen"] is the
\* number of entries of the cache.
C38_StmtCacheLen ==
    (lastCall.op = "Execute" /\ cached(prepStmtCache) # cached(lastCall.before))
        => Stats.StmtCacheLen = Cardinality(DOMAIN prepStmtCache)

(***************************************************************************)
(* Execute with a dataTypes override                                        *)
(***************************************************************************)
NextTypes ==
    \/ \E sql \in SQLs : \E dataTypes \in DataTypeArgs : ExecuteWith(sql, dataTypes)
    \/ Disconnect

SpecTypes == InitSend /\ [][NextTypes]_vars

\* C39: with caching enabled, the column descriptors of every cached entry
\* are the ones the server provided, whatever dataTypes earlier calls passed,
\* and an Execute without dataTypes sends those in its
\* executePreparedStatement request.
C39_OverrideOneCall ==
    CachePrepStmts =>
      /\ \A s \in DOMAIN prepStmtCache : prepStmtCache[s].columns = ServerColumns
      /\ (lastCall.op = "Execute" /\ lastCall.dataTypes = NoTypes
            /\ lastCall.execSths # << >>)
           => lastCall.Columns = ServerColumns

(***************************************************************************)
(* readLine on its own, over arbitrary bytes                                *)
(***************************************************************************)
\* Longest input handed to readLine.
MaxLine == 5

RECURSIVE Seqs(_, _)
Seqs(S, n) ==
    IF n = 0 THEN { << >> }
    ELSE Seqs(S, n - 1) \cup { Append(q, x) : q \in Seqs(S, n - 1), x \in S }

\* What the remote end may have sent: any bytes, CR and LF among them.
LineInputs == Seqs({"x", CR, LF}, MaxLine)

lineFrame ==
    << dial, crashed, transport, session, srvAuth, srvAttr, cliAttr, lastAttr, lastSend,
       stmtVars, fetchVars, QueryTimeout, SuppressError, proxy, sock, dataErr, respErr, rcv,
       att, writeVars, readVars >>

\* One call of readLine that returns: the line, and the bytes left unread.
ReadLine ==
    /\ lines.bytes # << >>
    /\ \E l \in { readLine(lines) } :
         /\ l.st = "ok"
         /\ lines' = [lines EXCEPT !.bytes = l.rest,
                                   !.log = Append(@, [before |-> lines.bytes,
                                                      line |-> l.line, rest |-> l.rest])]
    /\ UNCHANGED lineFrame

\* A connection with its bytes; the remote end has closed it or not.
InitLine ==
    /\ \E b \in LineInputs : \E eof \in BOOLEAN :
         lines = [NoLines EXCEPT !.bytes = b, !.eof = eof]
    /\ dial = NoDial
    /\ lastSend = NoSend
    /\ CachePrepStmts = FALSE
    /\ wsOpen = FALSE
    /\ transport = "none"
    /\ session = NoSession
    /\ srvAuth = NoAuth
    /\ srvAttr = ServerDefaults
    /\ cliAttr = ZeroAttr
    /\ lastAttr = NoAttrCall
    /\ InitConn
    /\ InitNoFetch
    /\ InitNoBulk

NextLine == ReadLine

SpecLine == InitLine /\ [][NextLine]_vars

\* The positions of b at which a CR LF pair starts.
pairs(b) == { i \in 1..(Len(b) - 1) : b[i] = CR /\ b[i + 1] = LF }

firstPair(b) == CHOOSE i \in pairs(b) : \A j \in pairs(b) : i <= j

\* C40: a call of readLine on bytes that hold a CR LF pair returns the bytes
\* before the first such pair and leaves unread the bytes after it.
C40_ReadLine ==
    \A k \in 1..Len(lines.log) :
      \E c \in { lines.log[k] } :
        pairs(c.before) # {} =>
          /\ c.line = SubSeq(c.before, 1, firstPair(c.before) - 1)
          /\ c.rest = SubSeq(c.before, firstPair(c.before) + 2, Len(c.before))

====
